---- MODULE Spec2Model ----
(***************************************************************************)
(* Verification model of the floorplan geometry pipeline:                  *)
(*   - matchRoomsToContours   (supabase/functions/analyze-floorplan)       *)
(*   - the serve handler's STAGE 3 / STAGE 4 (matching fallback, agent     *)
(*     race against the timeout timer, geometric fallback)                 *)
(*   - detectAdjacencyGeometric and the spatial tools                      *)
(*   - calculateConnectedLayout, arrangeWithBFS, arrangeInGrid,            *)
(*     validateLayout (src/utils/floorplanLayout.ts)                       *)
(*                                                                         *)
(* Pixel quantities are integers.  Euclidean distances are kept squared    *)
(* (the code only compares them).  World lengths are integers in units of  *)
(* 0.05 m, so that WALL_THICKNESS = 0.1 m = 2 and half extents of rooms    *)
(* whose sides are multiples of 0.1 m stay integral.                       *)
(***************************************************************************)
EXTENDS Integers, Sequences, FiniteSets, TLC

VARIABLES
    \* ---- matchRoomsToContours ----
    claudeRooms,       \* the semantic rooms handed to the matcher
    contours,          \* the detector's contours (largest area first)
    filteredContours,  \* the contour pool after the pre-filter
    roomIdx,           \* number of rooms the for-loop has consumed
    usedContours,      \* Set<number> of indices into filteredContours
    unified,           \* the UnifiedRoomData[] built so far
    matchLog,          \* per emitted room: bestIndex, matchType, bestDistance^2
    matchPc            \* "idle" | "loop" | "done"

matchVars == <<claudeRooms, contours, filteredContours, roomIdx,
               usedContours, unified, matchLog, matchPc>>

VARIABLES
    \* ---- serve handler (index.ts), STAGE 3 and STAGE 4 ----
    unifiedRooms,           \* the rooms handed to the adjacency stage
    usedSyntheticContours,  \* the flag of the same name
    handlerPc,              \* "idle" | "stage3" | "stage4" | "await" | "done"
    raceWinner,             \* Promise.race: "none" | "agent" | "timeout"
    timerPc,                \* the setTimeout of the race: "unset" | "armed" | "fired"
    response,               \* <<>> until response_data is built, then <<response_data>>
    \* ---- determineAdjacencyWithAgent ----
    agentPc,                \* "idle" | "fetch" | "backoff" | "delay" | "resolved"
    iterations,
    retryAttempts,
    backoffMs,              \* the wait in progress after a 429, else 0
    messages,
    adjacencyList,
    agentOutcome,           \* how the loop ended (the log line written)
    agentResult             \* the value the promise resolved with

handlerVars == <<unifiedRooms, usedSyntheticContours, handlerPc, raceWinner,
                 timerPc, response>>
agentVars == <<agentPc, iterations, retryAttempts, backoffMs, messages,
               adjacencyList, agentOutcome, agentResult>>

VARIABLES
    \* ---- detectAdjacencyGeometric run on its own ----
    geoRooms,
    geoAdjacency,
    nearby,                 \* <<>> or <<the arguments and result of listNearbyRooms>>
    geoPc                   \* "idle" | "start" | "done" | "listed"

geoVars == <<geoRooms, geoAdjacency, nearby, geoPc>>

VARIABLES
    \* ---- calculateConnectedLayout and validateLayout (floorplanLayout.ts) ----
    aiResponse,             \* the AIFloorplanResponse given to the layout engine
    layoutPc,               \* "idle" | "start" | "bfs" | "laid" | "validated" | "threw"
    strategy,               \* the strategy that runs: "none" | "image" | "bfs" | "grid"
    positioned,             \* arrangeWithBFS: the Map positioned, in insertion order
    queue,                  \* arrangeWithBFS: the queue of room ids
    bfsTrace,               \* for each room the traversal placed: its base and edge
    layoutRooms,            \* FloorplanData.rooms of the result
    validation              \* <<>> or <<the result of validateLayout>>

layoutVars == <<aiResponse, layoutPc, strategy, positioned, queue, bfsTrace,
                layoutRooms, validation>>

VARIABLES
    \* ---- generateSyntheticContours, STEP 1, run on its own ----
    synthRooms,             \* claudeRooms
    roomData,               \* roomData: labelPos (px), centroid and width (tenths of px)
    synthI,                 \* the loop indices i and j (from 1)
    synthJ,
    synthUnified,           \* <<>> until the function returns, then its result
    synthPc                 \* "idle" | "start" | "resolve" | "done" | "returned"

synthVars == <<synthRooms, roomData, synthI, synthJ, synthUnified, synthPc>>

VARIABLES
    \* ---- detectRoomBoundaries (visionDetection.ts) ----
    detectInput,            \* <<>> or <<the environment and the decoded image>>
    detectResult,           \* <<>> or <<[threw, contours]>>
    detectPc                \* "idle" | "start" | "done"

detectVars == <<detectInput, detectResult, detectPc>>

vars == <<matchVars, handlerVars, agentVars, geoVars, layoutVars, synthVars, detectVars>>

(***************************************************************************)
(* Generic helpers                                                         *)
(***************************************************************************)
Min(a, b) == IF a <= b THEN a ELSE b
Max(a, b) == IF a >= b THEN a ELSE b
Abs(a) == IF a >= 0 THEN a ELSE -a

RECURSIVE SumSeq(_, _)
\* Array.reduce((sum, e) => sum + f(e), 0) over s[1..n]
SumSeq(s, n) == IF n = 0 THEN 0 ELSE SumSeq(s, n - 1) + s[n]

RECURSIVE SelectIdx(_, _)
\* the increasing sequence of the members of the index set S that are <= n
SelectIdx(S, n) ==
    IF n = 0 THEN <<>>
    ELSE IF n \in S THEN Append(SelectIdx(S, n - 1), n)
         ELSE SelectIdx(S, n - 1)

(***************************************************************************)
(* matchRoomsToContours.ts                                                 *)
(***************************************************************************)
\* number larger than every squared distance of the model: `Infinity`
Infinity == 1000000000
\* near matches must be within 200 px
NearMatchPx == 200
\* label may lie up to 20 px outside the bounding box
LabelMargin == 20
\* contours below 1000 px of area are dropped
MinContourArea == 1000

\* Math.sqrt(dx^2 + dy^2), kept squared
distance(p1, p2) ==
    (p2.x - p1.x) * (p2.x - p1.x) + (p2.y - p1.y) * (p2.y - p1.y)

isPointInBox(point, bbox, margin) ==
    /\ point.x >= bbox.x - margin
    /\ point.x <= bbox.x + bbox.width + margin
    /\ point.y >= bbox.y - margin
    /\ point.y <= bbox.y + bbox.height + margin

HasLabel(room) == Len(room.labelPosition) > 0
LabelOf(room) == room.labelPosition[1]

\* imageArea = contours.reduce((sum, c) => sum + c.area, 0)
imageArea(cs) == SumSeq([i \in 1..Len(cs) |-> cs[i].area], Len(cs))

\* c.area > Math.min(imageArea * 0.25, avgArea * 10),
\* avgArea = imageArea / Math.max(contours.length, 1)
tooLarge(c, cs) ==
    \/ 4 * c.area > imageArea(cs)
    \/ Max(Len(cs), 1) * c.area > 10 * imageArea(cs)

\* aspectRatio = width / height; aspectRatio < 0.2 || aspectRatio > 5
\* (x/0 is Infinity for x > 0, and 0/0 is NaN, which fails both tests)
badAspect(c) ==
    IF c.bbox.height = 0 THEN c.bbox.width > 0
    ELSE \/ 5 * c.bbox.width < c.bbox.height
         \/ c.bbox.width > 5 * c.bbox.height

keepContour(c, cs) ==
    /\ ~(c.area < MinContourArea)
    /\ ~tooLarge(c, cs)
    /\ ~badAspect(c)

\* contours.filter(...)
filterContours(cs) ==
    LET keep == {i \in 1..Len(cs) : keepContour(cs[i], cs)}
        idx == SelectIdx(keep, Len(cs))
    IN  [k \in 1..Len(idx) |-> cs[idx[k]]]

NoBest == [bestIndex |-> 0, bestDistance |-> Infinity, matchType |-> "far"]

RECURSIVE scanContoursNoSkip(_, _, _, _, _, _)
\* mutant of scanContours: the `usedContours.has(i)` test is missing
scanContoursNoSkip(label, fc, used, i, best, exact) ==
    IF i > Len(fc) THEN best
    ELSE LET dist == distance(label, fc[i].centroid)
             hit == /\ (exact => isPointInBox(label, fc[i].bbox, LabelMargin))
                    /\ dist < best.bestDistance
             nb == IF hit
                   THEN [bestIndex |-> i, bestDistance |-> dist,
                         matchType |-> IF exact THEN "exact" ELSE "near"]
                   ELSE best
         IN  scanContoursNoSkip(label, fc, used, i + 1, nb, exact)

RECURSIVE scanContours(_, _, _, _, _, _)
\* one of the two for-loops over filteredContours, from index i on;
\* exact = TRUE is Strategy 1 (containment), FALSE is Strategy 2 (nearest)
scanContours(label, fc, used, i, best, exact) ==
    IF i > Len(fc) THEN best
    ELSE IF i \in used THEN scanContours(label, fc, used, i + 1, best, exact)
    ELSE LET dist == distance(label, fc[i].centroid)
             hit == /\ (exact => isPointInBox(label, fc[i].bbox, LabelMargin))
                    /\ dist < best.bestDistance
             nb == IF hit
                   THEN [bestIndex |-> i, bestDistance |-> dist,
                         matchType |-> IF exact THEN "exact" ELSE "near"]
                   ELSE best
         IN  scanContours(label, fc, used, i + 1, nb, exact)

\* the search of one loop iteration: Strategy 1, then Strategy 2 if needed
findBest(label, fc, used) ==
    LET s1 == scanContours(label, fc, used, 1, NoBest, TRUE)
    IN  IF s1.bestIndex # 0 THEN s1
        ELSE scanContours(label, fc, used, 1, NoBest, FALSE)

\* mutant of acceptMatch: a near match at exactly 200 px is accepted
acceptMatchInclusive(best) ==
    /\ best.bestIndex # 0
    /\ best.bestDistance <=
         (IF best.matchType = "exact" THEN Infinity
          ELSE NearMatchPx * NearMatchPx)

\* bestContour && bestDistance < maxDistance
acceptMatch(best) ==
    /\ best.bestIndex # 0
    /\ best.bestDistance <
         (IF best.matchType = "exact" THEN Infinity
          ELSE NearMatchPx * NearMatchPx)

unifiedRoom(room, c) ==
    [id |-> room.id, name |-> room.name, width |-> room.width,
     depth |-> room.depth, labelPosition |-> room.labelPosition,
     bbox |-> c.bbox, centroid |-> c.centroid, areaPixels |-> c.area]

\* the body of `for (const room of claudeRooms)` applied to state st
matchStep(st, room, fc) ==
    IF ~HasLabel(room) THEN st
    ELSE LET best == findBest(LabelOf(room), fc, st.used)
         IN  IF acceptMatch(best)
             THEN [used |-> st.used \cup {best.bestIndex},
                   unified |-> Append(st.unified,
                                      unifiedRoom(room, fc[best.bestIndex])),
                   log |-> Append(st.log,
                                  [room |-> room.id,
                                   bestIndex |-> best.bestIndex,
                                   matchType |-> best.matchType,
                                   bestDistance |-> best.bestDistance])]
             ELSE st

RECURSIVE matchLoop(_, _, _)
matchLoop(rooms, fc, n) ==
    IF n = 0 THEN [used |-> {}, unified |-> <<>>, log |-> <<>>]
    ELSE matchStep(matchLoop(rooms, fc, n - 1), rooms[n], fc)

\* the whole function: the returned UnifiedRoomData[]
matchRoomsToContours(rooms, cs) ==
    matchLoop(rooms, filterContours(cs), Len(rooms)).unified

(***************************************************************************)
(* Inputs of the matcher: bounded pools                                    *)
(***************************************************************************)
MaxRooms == 3
MaxContours == 6

Pt(px, py) == [x |-> px, y |-> py]
Box(bx, by, bw, bh) == [x |-> bx, y |-> by, width |-> bw, height |-> bh]
Contour(bx, by, bw, bh, a) ==
    [bbox |-> Box(bx, by, bw, bh),
     centroid |-> Pt(bx + bw \div 2, by + bh \div 2),
     area |-> a]

\* Candidate contours, in the detector's order.  Contour 1 is the 200x150
\* room at the origin, 2 lies 10 px east of it, 4 lies 10 px south of it, 5
\* completes the block; 3 is a long thin strip; 6 is a 40x40 room 10 px south
\* of contour 4; later ones are specks of 20x20.
ContourPool(i) ==
    CASE i = 1 -> Contour(0, 0, 200, 150, 30000)
      [] i = 2 -> Contour(210, 0, 200, 150, 30000)
      [] i = 3 -> Contour(0, 400, 600, 50, 30000)
      [] i = 4 -> Contour(0, 160, 200, 140, 28000)
      [] i = 5 -> Contour(210, 160, 200, 140, 28000)
      [] i = 6 -> Contour(80, 310, 40, 40, 1600)
      [] OTHER -> Contour(600, 30 * (i - 7), 20, 20, 400)

\* Label positions: the centre of contour 1; a point inside the margins of
\* contours 1 and 4 (nearer to 4); a point inside the margins of 1, 2, 4 and
\* 5; a point outside every box, 164 px from the centre of contour 2 and
\* 200 px from that of contour 5; a point inside contour 4, 5 px from its
\* south side and 15 px from contour 6.
LabelPool ==
    {Pt(100, 75), Pt(100, 160), Pt(205, 155), Pt(470, 110), Pt(100, 295)}
LabelChoices == {<<>>} \cup {<<p>> : p \in LabelPool}

SemanticRoom(i, nm, w, d, lbl) ==
    [id |-> i, name |-> nm, width |-> w, depth |-> d, labelPosition |-> lbl]

ContourLists ==
    {[k \in 1..Len(SelectIdx(S, MaxContours)) |->
         ContourPool(SelectIdx(S, MaxContours)[k])] :
       S \in SUBSET (1..MaxContours)}

MatchRoomLists ==
    UNION {{[i \in 1..n |-> SemanticRoom(i, "room", 3, 2, f[i])] :
              f \in [1..n -> LabelChoices]} : n \in 0..MaxRooms}

(***************************************************************************)
(* The matcher as a state machine: one step per loop iteration             *)
(***************************************************************************)
HandlerIdle ==
    /\ unifiedRooms = <<>>
    /\ usedSyntheticContours = FALSE
    /\ handlerPc = "idle"
    /\ raceWinner = "none"
    /\ timerPc = "unset"
    /\ response = <<>>

AgentIdle ==
    /\ agentPc = "idle"
    /\ iterations = 0
    /\ retryAttempts = 0
    /\ backoffMs = 0
    /\ messages = <<>>
    /\ adjacencyList = <<>>
    /\ agentOutcome = "none"
    /\ agentResult = <<>>

LayoutIdle ==
    /\ aiResponse = <<>>
    /\ layoutPc = "idle"
    /\ strategy = "none"
    /\ positioned = <<>>
    /\ queue = <<>>
    /\ bfsTrace = <<>>
    /\ layoutRooms = <<>>
    /\ validation = <<>>

DetectIdle ==
    /\ detectInput = <<>>
    /\ detectResult = <<>>
    /\ detectPc = "idle"

SynthIdle ==
    /\ synthRooms = <<>>
    /\ roomData = <<>>
    /\ synthI = 0
    /\ synthJ = 0
    /\ synthUnified = <<>>
    /\ synthPc = "idle"

GeoIdle ==
    /\ geoRooms = <<>>
    /\ geoAdjacency = <<>>
    /\ geoPc = "idle"
    /\ nearby = <<>>

MatchIdle ==
    /\ claudeRooms = <<>>
    /\ contours = <<>>
    /\ filteredContours = <<>>
    /\ roomIdx = 0
    /\ usedContours = {}
    /\ unified = <<>>
    /\ matchLog = <<>>
    /\ matchPc = "idle"

MatchInit ==
    /\ claudeRooms \in MatchRoomLists
    /\ contours \in ContourLists
    /\ filteredContours = <<>>
    /\ roomIdx = 0
    /\ usedContours = {}
    /\ unified = <<>>
    /\ matchLog = <<>>
    /\ matchPc = "filter"
    /\ HandlerIdle /\ AgentIdle /\ GeoIdle /\ LayoutIdle /\ SynthIdle /\ DetectIdle

\* lines 307-347: the pre-filter and the initialisation of the loop
FilterContours ==
    /\ matchPc = "filter"
    /\ filteredContours' = filterContours(contours)
    /\ matchPc' = "loop"
    /\ UNCHANGED <<claudeRooms, contours, roomIdx, usedContours, unified,
                   matchLog>>
    /\ UNCHANGED <<handlerVars, agentVars, geoVars, layoutVars, synthVars, detectVars>>

\* lines 350-427: one iteration of the for-loop
MatchNextRoom ==
    /\ matchPc = "loop"
    /\ roomIdx < Len(claudeRooms)
    /\ LET st == matchStep([used |-> usedContours, unified |-> unified,
                            log |-> matchLog],
                           claudeRooms[roomIdx + 1], filteredContours)
       IN  /\ usedContours' = st.used
           /\ unified' = st.unified
           /\ matchLog' = st.log
    /\ roomIdx' = roomIdx + 1
    /\ UNCHANGED <<claudeRooms, contours, filteredContours, matchPc>>
    /\ UNCHANGED <<handlerVars, agentVars, geoVars, layoutVars, synthVars, detectVars>>

\* lines 429-432: return unified
MatchReturn ==
    /\ matchPc = "loop"
    /\ roomIdx = Len(claudeRooms)
    /\ matchPc' = "done"
    /\ UNCHANGED <<claudeRooms, contours, filteredContours, roomIdx,
                   usedContours, unified, matchLog>>
    /\ UNCHANGED <<handlerVars, agentVars, geoVars, layoutVars, synthVars, detectVars>>

MatchNext == FilterContours \/ MatchNextRoom \/ MatchReturn

SpecMatch == MatchInit /\ [][MatchNext]_vars

(***************************************************************************)
(* C1: matching is injective.  No contour index is assigned to two output  *)
(* rooms (the used set holds exactly the indices of the emitted rooms, one *)
(* per room), no two output rooms carry the same bbox and centroid, each   *)
(* input room is emitted at most once, and the output has at most          *)
(* min(#rooms, #contours) entries.                                         *)
(***************************************************************************)
C1_MatchingInjective ==
    /\ Len(matchLog) = Len(unified)
    /\ Cardinality(usedContours) = Len(unified)
    /\ usedContours = {matchLog[a].bestIndex : a \in 1..Len(matchLog)}
    /\ \A a, b \in 1..Len(unified) :
         a # b =>
           /\ matchLog[a].bestIndex # matchLog[b].bestIndex
           /\ <<unified[a].bbox, unified[a].centroid>> #
                <<unified[b].bbox, unified[b].centroid>>
           /\ unified[a].id # unified[b].id
    /\ \A a \in 1..Len(unified) :
         /\ matchLog[a].bestIndex \in 1..Len(filteredContours)
         /\ unified[a].bbox = filteredContours[matchLog[a].bestIndex].bbox
         /\ \E i \in 1..roomIdx : claudeRooms[i].id = unified[a].id
    /\ Len(unified) <= Min(Len(claudeRooms), Len(contours))

\* three rooms compete for the two contours that survive the filter: two are
\* matched, the third finds every contour used
C1_Witness ==
    /\ matchPc = "done"
    /\ Len(claudeRooms) = 3
    /\ Len(filteredContours) = 2
    /\ Len(unified) = 2
    /\ usedContours = {1, 2}

(***************************************************************************)
(* C10: a single plausible contour (bbox 200x150 at the origin, centroid   *)
(* (100,75), area 30000) and a room labelled at its centroid give an exact *)
(* match at distance 0; the pre-filter keeps the only contour.             *)
(***************************************************************************)
C10_SingleContourExactMatch ==
    ( /\ matchPc = "done"
      /\ contours = <<Contour(0, 0, 200, 150, 30000)>>
      /\ Len(claudeRooms) = 1
      /\ claudeRooms[1].labelPosition = <<Pt(100, 75)>> )
    => /\ Len(filteredContours) = 1
       /\ Len(unified) = 1
       /\ unified[1].bbox = Box(0, 0, 200, 150)
       /\ matchLog[1].matchType = "exact"
       /\ matchLog[1].bestDistance = 0

(***************************************************************************)
(* spatialTools and detectAdjacencyGeometric (agenticAdjacency.ts)         *)
(***************************************************************************)
DistanceThresholdSpatial == 15
DistanceThresholdGrid == 30
OverlapThresholdSpatial == 50
OverlapThresholdGrid == 60
VeryClosePx == 20

\* const directions = ['north', 'south', 'east', 'west']
directions == <<"north", "south", "east", "west">>

RECURSIVE findIndex(_, _, _)
\* rooms.find(r => r.id === id): index of the first room with that id, 0 if none
findIndex(rooms, id, i) ==
    IF i > Len(rooms) THEN 0
    ELSE IF rooms[i].id = id THEN i
    ELSE findIndex(rooms, id, i + 1)

checkEdgeDistance(rooms, room1_id, room2_id, edge) ==
    LET i1 == findIndex(rooms, room1_id, 1)
        i2 == findIndex(rooms, room2_id, 1)
    IN  IF i1 = 0 \/ i2 = 0 THEN Infinity
        ELSE LET r1 == rooms[i1].bbox
                 r2 == rooms[i2].bbox
             IN  CASE edge = "north" -> r1.y - (r2.y + r2.height)
                   [] edge = "south" -> r2.y - (r1.y + r1.height)
                   [] edge = "east" -> r2.x - (r1.x + r1.width)
                   [] edge = "west" -> r1.x - (r2.x + r2.width)

\* the percentage (overlap / min) * 100 as the pair of its terms; min = 0
\* stands for the result 0
getOverlapPercentage(rooms, room1_id, room2_id, axis) ==
    LET i1 == findIndex(rooms, room1_id, 1)
        i2 == findIndex(rooms, room2_id, 1)
    IN  IF i1 = 0 \/ i2 = 0 THEN [overlap |-> 0, min |-> 0]
        ELSE LET r1 == rooms[i1].bbox
                 r2 == rooms[i2].bbox
             IN  IF axis = "x"
                 THEN [overlap |-> Max(0, Min(r1.x + r1.width, r2.x + r2.width)
                                          - Max(r1.x, r2.x)),
                       min |-> Min(r1.width, r2.width)]
                 ELSE [overlap |-> Max(0, Min(r1.y + r1.height, r2.y + r2.height)
                                          - Max(r1.y, r2.y)),
                       min |-> Min(r1.height, r2.height)]

\* overlap >= required, for a percentage given by its terms
PercentAtLeast(p, required) ==
    IF p.min > 0 THEN p.overlap * 100 >= required * p.min ELSE 0 >= required

\* distances.reduce((min, curr) => curr.dist < min.dist ? curr : min) over
\* north, south, east, west
closestDirection(rooms, room_id, other_id) ==
    LET dirs == <<"north", "south", "east", "west">>
        dist(k) == checkEdgeDistance(rooms, room_id, other_id, dirs[k])
        best == CHOOSE k \in 1..4 :
                  /\ \A m \in 1..4 : dist(k) <= dist(m)
                  /\ \A m \in 1..(k - 1) : dist(m) > dist(k)
    IN  [dir |-> dirs[best], dist |-> dist(best)]

RECURSIVE sortByDistance(_)
\* nearby.sort((a, b) => a.distance - b.distance), a stable sort
sortByDistance(list) ==
    IF Len(list) <= 1 THEN list
    ELSE LET rest == sortByDistance(SubSeq(list, 1, Len(list) - 1))
             last == list[Len(list)]
             before == SelectSeq(rest, LAMBDA e : e.distance <= last.distance)
             after == SelectSeq(rest, LAMBDA e : e.distance > last.distance)
         IN  before \o <<last>> \o after

RECURSIVE nearbyFrom(_, _, _, _)
\* the for-loop of listNearbyRooms from the k-th room on
nearbyFrom(rooms, room_id, max_distance_px, k) ==
    IF k > Len(rooms) THEN <<>>
    ELSE LET other == rooms[k]
             closest == closestDirection(rooms, room_id, other.id)
             rest == nearbyFrom(rooms, room_id, max_distance_px, k + 1)
         IN  IF other.id = room_id THEN rest
             ELSE IF closest.dist < max_distance_px
                  THEN <<[id |-> other.id, name |-> other.name,
                          direction |-> closest.dir,
                          distance |-> closest.dist]>> \o rest
                  ELSE rest

listNearbyRooms(rooms, room_id, max_distance_px) ==
    IF findIndex(rooms, room_id, 1) = 0 THEN <<>>
    ELSE sortByDistance(nearbyFrom(rooms, room_id, max_distance_px, 1))

\* rooms.some(r => r.labelPosition)
hasClaudeSpatialData(rooms) == \E i \in 1..Len(rooms) : HasLabel(rooms[i])

DISTANCE_THRESHOLD(rooms) ==
    IF hasClaudeSpatialData(rooms) THEN DistanceThresholdSpatial
    ELSE DistanceThresholdGrid

OVERLAP_THRESHOLD(rooms) ==
    IF hasClaudeSpatialData(rooms) THEN OverlapThresholdSpatial
    ELSE OverlapThresholdGrid

\* the test of one direction for the pair (room1, room2)
edgeQualifies(rooms, room1, room2, edge) ==
    LET dist == checkEdgeDistance(rooms, room1.id, room2.id, edge)
        axis == IF edge \in {"north", "south"} THEN "x" ELSE "y"
        overlap == getOverlapPercentage(rooms, room1.id, room2.id, axis)
        isVeryClose == Abs(dist) < VeryClosePx
        requiredOverlap == IF isVeryClose THEN 0 ELSE OVERLAP_THRESHOLD(rooms)
    IN  /\ Abs(dist) <= DISTANCE_THRESHOLD(rooms)
        /\ PercentAtLeast(overlap, requiredOverlap)

RECURSIVE pairAdjacencyAll(_, _, _, _)
\* mutant of pairAdjacency: the `break` after the push is missing
pairAdjacencyAll(rooms, room1, room2, k) ==
    IF k > Len(directions) THEN <<>>
    ELSE (IF edgeQualifies(rooms, room1, room2, directions[k])
          THEN <<[room1 |-> room1.id, room2 |-> room2.id,
                  edge |-> directions[k]]>>
          ELSE <<>>) \o pairAdjacencyAll(rooms, room1, room2, k + 1)

RECURSIVE pairAdjacency(_, _, _, _)
\* `for (const edge of directions)` from the k-th direction on: the relations
\* pushed for the pair (none, or one followed by break)
pairAdjacency(rooms, room1, room2, k) ==
    IF k > Len(directions) THEN <<>>
    ELSE IF edgeQualifies(rooms, room1, room2, directions[k])
         THEN <<[room1 |-> room1.id, room2 |-> room2.id,
                 edge |-> directions[k]]>>
         ELSE pairAdjacency(rooms, room1, room2, k + 1)

RECURSIVE adjacencyFrom(_, _, _)
\* the nested loops `for i` / `for j = i + 1`, from the pair (i, j) on
adjacencyFrom(rooms, i, j) ==
    IF i > Len(rooms) THEN <<>>
    ELSE IF j > Len(rooms) THEN adjacencyFrom(rooms, i + 1, i + 2)
    ELSE pairAdjacency(rooms, rooms[i], rooms[j], 1)
           \o adjacencyFrom(rooms, i, j + 1)

detectAdjacencyGeometric(rooms) == adjacencyFrom(rooms, 1, 2)

(***************************************************************************)
(* generateSyntheticContours (matchRoomsToContours.ts, second revision)    *)
(*                                                                         *)
(* Room sides are whole metres here.  Intermediate pixel quantities are    *)
(* kept in tenths of a pixel (dpx), truncated; they are exact whenever the *)
(* total area is a square dividing 25,000,000 and label distances are      *)
(* whole pixels (labels on one horizontal or vertical line).               *)
(***************************************************************************)
ImageWidth == 1000
ImageHeight == 1000
PushGapPx == 20
FlowMarginPx == 100
RoomSpacingPx == 50

RECURSIVE ISqrtIn(_, _, _)
\* the largest k in lo..hi-1 with k * k <= n (binary search)
ISqrtIn(n, lo, hi) ==
    IF hi - lo <= 1 THEN lo
    ELSE LET mid == (lo + hi) \div 2
         IN  IF mid * mid <= n THEN ISqrtIn(n, mid, hi)
             ELSE ISqrtIn(n, lo, mid)

\* floor(Math.sqrt(n)) for 0 <= n < 46340^2
ISqrt(n) == ISqrtIn(n, 0, 46340)

\* Math.round(a / b) for b > 0: halves round towards +Infinity
RoundDiv(a, b) == (2 * a + b) \div (2 * b)

\* claudeRooms.reduce((sum, r) => sum + r.width * r.depth, 0)
totalArea(rooms) ==
    SumSeq([i \in 1..Len(rooms) |-> rooms[i].width * rooms[i].depth],
           Len(rooms))

\* pixelsPerSqMeter = sqrt(targetPixelsPerRoom / avgRoomArea)
\*                  = sqrt((W * H / 4) / totalArea), in tenths
pixelsPerSqMeter(rooms) ==
    ISqrt((ImageWidth * ImageHeight * 25) \div totalArea(rooms))

\* the indices of the rooms with / without labelPosition, in input order
roomsWithLabels(rooms) ==
    SelectIdx({i \in 1..Len(rooms) : HasLabel(rooms[i])}, Len(rooms))
roomsWithoutLabels(rooms) ==
    SelectIdx({i \in 1..Len(rooms) : ~HasLabel(rooms[i])}, Len(rooms))

\* STEP 1 for one pair (r1 before r2): the push applied to r2 (r1 gets the
\* opposite), in dpx; <<0, 0>> when the labels are far enough apart
pairPush(r1, r2, scale) ==
    LET dx == LabelOf(r2).x - LabelOf(r1).x
        dy == LabelOf(r2).y - LabelOf(r1).y
        dist == ISqrt((dx * dx + dy * dy) * 100)
        minDist == (r1.width * scale + r2.width * scale) \div 2
        pushDist == (minDist - dist) \div 2 + PushGapPx * 10
    IN  IF dist < minDist
        THEN IF dist = 0 THEN <<pushDist, 0>>   \* atan2(0, 0) = 0
             ELSE <<(pushDist * dx * 10) \div dist,
                    (pushDist * dy * 10) \div dist>>
        ELSE <<0, 0>>

RECURSIVE pushSum(_, _, _, _, _, _)
\* the sum over all other labelled rooms j <= n of the pushes room k receives
pushSum(rooms, lab, k, n, scale, c) ==
    IF n = 0 THEN 0
    ELSE pushSum(rooms, lab, k, n - 1, scale, c) +
         (IF n = k THEN 0
          ELSE IF n > k
               THEN pairPush(rooms[lab[k]], rooms[lab[n]], scale)[c] * (-1)
               ELSE pairPush(rooms[lab[n]], rooms[lab[k]], scale)[c])

\* STEP 3 for the k-th labelled room
syntheticLabelled(rooms, lab, k, scale) ==
    LET room == rooms[lab[k]]
        w == room.width * scale
        h == room.depth * scale
        cx == LabelOf(room).x * 10 + pushSum(rooms, lab, k, Len(lab), scale, 1)
        cy == LabelOf(room).y * 10 + pushSum(rooms, lab, k, Len(lab), scale, 2)
    IN  [id |-> room.id, name |-> room.name, width |-> room.width,
         depth |-> room.depth, labelPosition |-> room.labelPosition,
         bbox |-> Box(RoundDiv(2 * cx - w, 20), RoundDiv(2 * cy - h, 20),
                      RoundDiv(w, 10), RoundDiv(h, 10)),
         centroid |-> Pt(RoundDiv(cx, 10), RoundDiv(cy, 10)),
         areaPixels |-> RoundDiv(room.width * room.depth
                                   * ((ImageWidth * ImageHeight) \div 4),
                                 totalArea(rooms))]

RECURSIVE flowX(_, _, _, _)
\* currentX (dpx) before the k-th room without labelPosition is placed
flowX(rooms, unl, k, scale) ==
    IF k = 1 THEN FlowMarginPx * 10
    ELSE LET next == flowX(rooms, unl, k - 1, scale)
                       + rooms[unl[k - 1]].width * scale + RoomSpacingPx * 10
         IN  IF next > (ImageWidth - FlowMarginPx) * 10
             THEN FlowMarginPx * 10
             ELSE next

\* the fallback flow for the k-th room without labelPosition (index k - 1)
syntheticUnlabelled(rooms, unl, k, scale) ==
    LET room == rooms[unl[k]]
        w == room.width * scale
        h == room.depth * scale
        currentX == flowX(rooms, unl, k, scale)
        \* 4 * y, y = baseY - h / 2 + (index even ? -h / 4 : h / 4)
        y4 == IF (k - 1) % 2 = 0 THEN 4 * (ImageHeight \div 2) * 10 - 3 * h
              ELSE 4 * (ImageHeight \div 2) * 10 - h
    IN  [id |-> room.id, name |-> room.name, width |-> room.width,
         depth |-> room.depth, labelPosition |-> room.labelPosition,
         bbox |-> Box(RoundDiv(currentX, 10), RoundDiv(y4, 40),
                      RoundDiv(w, 10), RoundDiv(h, 10)),
         centroid |-> Pt(RoundDiv(2 * currentX + w, 20),
                         RoundDiv(y4 + 2 * h, 40)),
         areaPixels |-> RoundDiv(room.width * room.depth
                                   * ((ImageWidth * ImageHeight) \div 4),
                                 totalArea(rooms))]

\* mutant of generateSyntheticContours: the rooms without labelPosition are
\* left out
generateSyntheticContoursLabelled(rooms) ==
    IF Len(rooms) = 0 THEN <<>>
    ELSE LET scale == pixelsPerSqMeter(rooms)
             lab == roomsWithLabels(rooms)
         IN  [k \in 1..Len(lab) |-> syntheticLabelled(rooms, lab, k, scale)]

generateSyntheticContours(rooms) ==
    IF Len(rooms) = 0 THEN <<>>
    ELSE LET scale == pixelsPerSqMeter(rooms)
             lab == roomsWithLabels(rooms)
             unl == roomsWithoutLabels(rooms)
         IN  [k \in 1..Len(lab) |-> syntheticLabelled(rooms, lab, k, scale)]
             \o [k \in 1..Len(unl) |-> syntheticUnlabelled(rooms, unl, k, scale)]

(***************************************************************************)
(* detectAdjacencyGeometric on its own: bounded inputs                     *)
(***************************************************************************)
MaxGeoRooms == 3

\* Room boxes: a 100x100 room at the origin; a room 5 px east of it with 80%
\* overlap on y; one 10 px south of it; a flat 100x10 room 5 px east of it;
\* one touching its south-east corner with a 10 px gap; one 25 px east of it;
\* a flat 100x10 room 5 px east of it with 80% overlap on y; one 10 px east
\* and 30 px south of its south-east corner.
GeoBoxPool ==
    {Box(0, 0, 100, 100), Box(105, 20, 100, 100), Box(0, 110, 100, 100),
     Box(105, 2, 100, 10), Box(110, 110, 100, 100), Box(125, 0, 100, 100),
     Box(105, 92, 100, 10), Box(110, 130, 100, 100)}

UnifiedRoom(i, b, labelled) ==
    [id |-> i, name |-> "room", width |-> 3, depth |-> 3,
     labelPosition |-> IF labelled
                       THEN <<Pt(b.x + b.width \div 2, b.y + b.height \div 2)>>
                       ELSE <<>>,
     bbox |-> b,
     centroid |-> Pt(b.x + b.width \div 2, b.y + b.height \div 2),
     areaPixels |-> b.width * b.height]

\* rooms 1..n with boxes b, the first with a label position iff l; with
\* dup, the second room carries the id of the first (a duplicate id)
GeoRooms(n, b, l, dup) ==
    [i \in 1..n |->
       UnifiedRoom(IF dup /\ i = 2 THEN 1 ELSE i, b[i], l /\ i = 1)]

GeoInit ==
    /\ \E n \in 0..MaxGeoRooms :
         \E b \in [1..n -> GeoBoxPool], l \in BOOLEAN, dup \in BOOLEAN :
           geoRooms = GeoRooms(n, b, l, dup)
    /\ geoAdjacency = <<>>
    /\ nearby = <<>>
    /\ geoPc = "start"
    /\ MatchIdle /\ HandlerIdle /\ AgentIdle /\ LayoutIdle /\ SynthIdle /\ DetectIdle

DetectAdjacencyGeometric ==
    /\ geoPc = "start"
    /\ geoAdjacency' = detectAdjacencyGeometric(geoRooms)
    /\ geoPc' = "done"
    /\ UNCHANGED <<geoRooms, nearby, matchVars, handlerVars, agentVars,
                   layoutVars, synthVars, detectVars>>

\* the arguments the oracle gives list_nearby_rooms: a room id (9 is the id
\* of no room) and max_distance_px
NearbyIds == {1, 2, 3, 9}
NearbyMax == {15, 50}

\* execution of the tool list_nearby_rooms
ListNearbyRooms ==
    /\ geoPc = "start"
    /\ \E room_id \in NearbyIds, max_distance_px \in NearbyMax :
         nearby' = <<[room_id |-> room_id,
                      max_distance_px |-> max_distance_px,
                      result |-> listNearbyRooms(geoRooms, room_id,
                                                 max_distance_px)]>>
    /\ geoPc' = "listed"
    /\ UNCHANGED <<geoRooms, geoAdjacency, matchVars, handlerVars, agentVars,
                   layoutVars, synthVars, detectVars>>

GeoNext ==
    \/ DetectAdjacencyGeometric
    \/ ListNearbyRooms

SpecGeo == GeoInit /\ [][GeoNext]_vars

UniqueIds(rooms) ==
    \A i, j \in 1..Len(rooms) : i # j => rooms[i].id # rooms[j].id

(***************************************************************************)
(* C9: for rooms with unique ids the geometric fallback reports every      *)
(* unordered pair at most once (never with two edges, never in both        *)
(* orders), and room1 precedes room2 in input order.                       *)
(***************************************************************************)
C9_PairReportedOnce ==
    (geoPc = "done" /\ UniqueIds(geoRooms)) =>
      /\ \A a, b \in 1..Len(geoAdjacency) :
           a # b => {geoAdjacency[a].room1, geoAdjacency[a].room2}
                      # {geoAdjacency[b].room1, geoAdjacency[b].room2}
      /\ \A a \in 1..Len(geoAdjacency) :
           /\ findIndex(geoRooms, geoAdjacency[a].room1, 1) # 0
           /\ findIndex(geoRooms, geoAdjacency[a].room1, 1)
                < findIndex(geoRooms, geoAdjacency[a].room2, 1)

\* a pair that qualifies both to the north and to the east has been reported
C9_Witness ==
    /\ geoPc = "done"
    /\ UniqueIds(geoRooms)
    /\ \E i, j \in 1..Len(geoRooms) :
         /\ i < j
         /\ edgeQualifies(geoRooms, geoRooms[i], geoRooms[j], "north")
         /\ edgeQualifies(geoRooms, geoRooms[i], geoRooms[j], "east")
         /\ \E a \in 1..Len(geoAdjacency) :
              /\ geoAdjacency[a].room1 = geoRooms[i].id
              /\ geoAdjacency[a].room2 = geoRooms[j].id

(***************************************************************************)
(* determineAdjacencyWithAgent (agenticAdjacency.ts)                       *)
(***************************************************************************)
MAX_ITERATIONS == 15
MAX_RETRIES == 3
HistoryLimit == 7
HistoryKeep == 6

\* a JSON number inside a parsed array
JsonNumber(n) == [number |-> n]

\* what the final (end_turn) message of the oracle can hold: no text block;
\* text without "[...]"; a "[...]" that JSON.parse rejects; "[]"; an array
\* of relations; an array of numbers; a relation with an unknown edge; a
\* relation without edge
FinalAnswers ==
    {[text |-> FALSE, jsonMatch |-> FALSE, parses |-> FALSE, value |-> <<>>],
     [text |-> TRUE, jsonMatch |-> FALSE, parses |-> FALSE, value |-> <<>>],
     [text |-> TRUE, jsonMatch |-> TRUE, parses |-> FALSE, value |-> <<>>],
     [text |-> TRUE, jsonMatch |-> TRUE, parses |-> TRUE, value |-> <<>>],
     [text |-> TRUE, jsonMatch |-> TRUE, parses |-> TRUE,
      value |-> <<[room1 |-> 1, room2 |-> 2, edge |-> "west"]>>],
     [text |-> TRUE, jsonMatch |-> TRUE, parses |-> TRUE,
      value |-> <<JsonNumber(1), JsonNumber(2)>>],
     [text |-> TRUE, jsonMatch |-> TRUE, parses |-> TRUE,
      value |-> <<[room1 |-> 1, room2 |-> 2, edge |-> "up"]>>],
     [text |-> TRUE, jsonMatch |-> TRUE, parses |-> TRUE,
      value |-> <<[room1 |-> 1, room2 |-> 2]>>]}

\* lines 162-176: the new value of adjacencyList
parseFinalAnswer(answer, current) ==
    IF answer.text /\ answer.jsonMatch /\ answer.parses THEN answer.value
    ELSE current

\* the log line that tells how the end_turn answer was read
answerOutcome(answer) ==
    IF ~answer.text THEN "no_text"
    ELSE IF ~answer.jsonMatch THEN "no_json"
    ELSE IF ~answer.parses THEN "parse_error"
    ELSE IF answer.value = <<>> THEN "empty_array"
    ELSE "answered"

\* mutant of pushAndTrim: the trim keeps the last 5 messages
pushAndTrimFive(msgs, turn) ==
    LET m == msgs \o <<[role |-> "assistant", content |-> "tool_use",
                        turn |-> turn],
                       [role |-> "user", content |-> "tool_result",
                        turn |-> turn]>>
    IN  IF Len(m) > HistoryLimit
        THEN <<m[1]>> \o SubSeq(m, Len(m) - 4, Len(m))
        ELSE m

\* lines 234-251: push the assistant turn and the tool results, then trim
pushAndTrim(msgs, turn) ==
    LET m == msgs \o <<[role |-> "assistant", content |-> "tool_use",
                        turn |-> turn],
                       [role |-> "user", content |-> "tool_result",
                        turn |-> turn]>>
    IN  IF Len(m) > HistoryLimit
        THEN <<m[1]>> \o SubSeq(m, Len(m) - HistoryKeep + 1, Len(m))
        ELSE m

\* mutant of loopContinues: one more turn is allowed
loopContinuesInclusive(iterations_) == iterations_ <= MAX_ITERATIONS

\* while (iterations < MAX_ITERATIONS)
loopContinues(iterations_) == iterations_ < MAX_ITERATIONS

\* mutant of backoff: the wait grows by 2 s per retry
backoffLinear(retryAttempts_) == 2 * retryAttempts_ * 1000

\* backoffMs = Math.pow(2, retryAttempts) * 1000
backoff(retryAttempts_) == (2 ^ retryAttempts_) * 1000

\* Promise.race settles with the first promise that settles
raceSettleLast(winner, by) == by
raceSettle(winner, by) == IF winner = "none" THEN by ELSE winner

\* `return adjacencyList` / `return []`: the promise resolves and the
\* call's locals end with the call
AgentResolve(value, outcome) ==
    /\ agentPc' = "resolved"
    /\ agentResult' = value
    /\ agentOutcome' = outcome
    /\ raceWinner' = raceSettle(raceWinner, "agent")
    /\ iterations' = 0
    /\ retryAttempts' = 0
    /\ backoffMs' = 0
    /\ messages' = <<>>
    /\ adjacencyList' = <<>>

agentRest == <<unifiedRooms, usedSyntheticContours, handlerPc, timerPc,
               response, matchVars, geoVars, layoutVars, synthVars, detectVars>>

\* fetch rejects, response.json() rejects or the reply has no content array:
\* the catch at line 269 returns []
AgentThrows ==
    /\ agentPc = "fetch"
    /\ AgentResolve(<<>>, "exception")
    /\ UNCHANGED agentRest

\* status 429 with retries left: back off and send again
AgentRateLimited ==
    /\ agentPc = "fetch"
    /\ retryAttempts < MAX_RETRIES
    /\ retryAttempts' = retryAttempts + 1
    /\ backoffMs' = backoff(retryAttempts')
    /\ agentPc' = "backoff"
    /\ UNCHANGED <<iterations, messages, adjacencyList, agentOutcome,
                   agentResult, raceWinner>>
    /\ UNCHANGED agentRest

AgentBackoffDone ==
    /\ agentPc = "backoff"
    /\ agentPc' = "fetch"
    /\ backoffMs' = 0
    /\ UNCHANGED <<iterations, retryAttempts, messages, adjacencyList,
                   agentOutcome, agentResult, raceWinner>>
    /\ UNCHANGED agentRest

\* status 429 on the last attempt: !response.ok, break
AgentRateLimitExhausted ==
    /\ agentPc = "fetch"
    /\ retryAttempts = MAX_RETRIES
    /\ AgentResolve(adjacencyList, "rate_limited")
    /\ UNCHANGED agentRest

\* any other non-OK status: break
AgentApiError ==
    /\ agentPc = "fetch"
    /\ AgentResolve(adjacencyList, "api_error")
    /\ UNCHANGED agentRest

\* stop_reason = end_turn
AgentEndTurn ==
    /\ agentPc = "fetch"
    /\ \E answer \in FinalAnswers :
         AgentResolve(parseFinalAnswer(answer, adjacencyList),
                      answerOutcome(answer))
    /\ UNCHANGED agentRest

\* stop_reason = tool_use: run the tools, extend the transcript, loop
AgentToolUse ==
    /\ agentPc = "fetch"
    /\ IF loopContinues(iterations)
       THEN /\ messages' = pushAndTrim(messages, iterations)
            /\ iterations' = iterations + 1
            /\ agentPc' = "delay"
            /\ UNCHANGED <<retryAttempts, backoffMs, adjacencyList, agentOutcome,
                           agentResult, raceWinner>>
       ELSE AgentResolve(adjacencyList, "max_iterations")
    /\ UNCHANGED agentRest

\* the 800 ms delay at the head of iterations 2.. has passed
AgentDelayDone ==
    /\ agentPc = "delay"
    /\ agentPc' = "fetch"
    /\ retryAttempts' = 0
    /\ backoffMs' = 0
    /\ UNCHANGED <<iterations, messages, adjacencyList, agentOutcome,
                   agentResult, raceWinner>>
    /\ UNCHANGED agentRest

\* stop_reason = max_tokens, or any other stop reason: break
AgentStopped ==
    /\ agentPc = "fetch"
    /\ \E why \in {"max_tokens", "unexpected_stop"} :
         AgentResolve(adjacencyList, why)
    /\ UNCHANGED agentRest

(***************************************************************************)
(* serve handler (index.ts): STAGE 3, STAGE 4, response                    *)
(***************************************************************************)
\* mutant of stage3: the match-rate test is missing
stage3KeepMatches(rooms, cs) ==
    IF Len(cs) > 0
    THEN [rooms |-> matchRoomsToContours(rooms, cs), synthetic |-> FALSE]
    ELSE [rooms |-> generateSyntheticContours(rooms), synthetic |-> TRUE]

\* lines 472-489: unifiedRooms and usedSyntheticContours
stage3(rooms, cs) ==
    IF Len(cs) > 0
    THEN LET m == matchRoomsToContours(rooms, cs)
         IN  IF 2 * Len(m) < Len(rooms)
             THEN [rooms |-> generateSyntheticContours(rooms),
                   synthetic |-> TRUE]
             ELSE [rooms |-> m, synthetic |-> FALSE]
    ELSE [rooms |-> generateSyntheticContours(rooms), synthetic |-> TRUE]

\* mutant of stage4Adjacency: the agent's empty list is passed on
stage4AdjacencyNoFallback(winner, result, rooms) ==
    IF winner = "agent" THEN result ELSE detectAdjacencyGeometric(rooms)

\* lines 500-519: the adjacency list once the race has settled
stage4Adjacency(winner, result, rooms) ==
    IF winner = "agent"
    THEN IF Len(result) = 0 /\ Len(rooms) > 1
         THEN detectAdjacencyGeometric(rooms)
         ELSE result
    ELSE detectAdjacencyGeometric(rooms)

\* lines 526-555
response_data(rooms, adjacency, cs, synthetic) ==
    [rooms |-> rooms,
     adjacency |-> adjacency,
     metadata |-> [contoursDetected |-> Len(cs),
                   roomsMatched |-> Len(rooms),
                   adjacenciesFound |-> Len(adjacency),
                   usedSyntheticContours |-> synthetic]]

Stage3 ==
    /\ handlerPc = "stage3"
    /\ LET r == stage3(claudeRooms, contours)
       IN  /\ unifiedRooms' = r.rooms
           /\ usedSyntheticContours' = r.synthetic
    /\ handlerPc' = "stage4"
    /\ UNCHANGED <<raceWinner, timerPc, response, agentVars, matchVars,
                   geoVars, layoutVars, synthVars, detectVars>>

\* lines 504-508: the agent runs up to its first fetch, the timer is armed,
\* the handler awaits the race
Stage4Start ==
    /\ handlerPc = "stage4"
    /\ agentPc' = "fetch"
    /\ iterations' = 1
    /\ retryAttempts' = 0
    /\ backoffMs' = 0
    /\ messages' = <<[role |-> "user", content |-> "prompt", turn |-> 0]>>
    /\ adjacencyList' = <<>>
    /\ timerPc' = "armed"
    /\ handlerPc' = "await"
    /\ UNCHANGED <<agentOutcome, agentResult, unifiedRooms,
                   usedSyntheticContours, raceWinner, response, matchVars,
                   geoVars, layoutVars, synthVars, detectVars>>

\* the timeout callback: reject(new Error('agent_timeout'))
TimerFire ==
    /\ timerPc = "armed"
    /\ timerPc' = "fired"
    /\ raceWinner' = raceSettle(raceWinner, "timeout")
    /\ UNCHANGED <<unifiedRooms, usedSyntheticContours, handlerPc, response,
                   agentVars, matchVars, geoVars, layoutVars, synthVars, detectVars>>

\* the continuation of `await Promise.race(...)` up to the response
HandlerRespond ==
    /\ handlerPc = "await"
    /\ raceWinner # "none"
    /\ response' = <<response_data(unifiedRooms,
                                   stage4Adjacency(raceWinner, agentResult,
                                                   unifiedRooms),
                                   contours, usedSyntheticContours)>>
    /\ handlerPc' = "done"
    /\ UNCHANGED <<unifiedRooms, usedSyntheticContours, raceWinner, timerPc,
                   agentVars, matchVars, geoVars, layoutVars, synthVars, detectVars>>

(***************************************************************************)
(* Inputs of the handler                                                   *)
(***************************************************************************)
MaxPipeRooms == 3

\* a room is unlabelled or labelled at a point inside the margins of
\* contours 1, 2, 4 and 5
PipeLabelChoices == {<<>>, <<Pt(205, 155)>>}

\* room i: sides of 2..4 m by 2..3 m
PipeRoom(i, lbl) ==
    SemanticRoom(i, "room", 2 + ((i + 1) % 3), 2 + (i % 2), lbl)

PipeInit ==
    /\ \E n \in 0..MaxPipeRooms :
         \E f \in [1..n -> PipeLabelChoices] :
           claudeRooms = [i \in 1..n |-> PipeRoom(i, f[i])]
    /\ \E k \in 0..MaxContours : contours = [i \in 1..k |-> ContourPool(i)]
    /\ filteredContours = <<>>
    /\ roomIdx = 0
    /\ usedContours = {}
    /\ unified = <<>>
    /\ matchLog = <<>>
    /\ matchPc = "idle"
    /\ unifiedRooms = <<>>
    /\ usedSyntheticContours = FALSE
    /\ handlerPc = "stage3"
    /\ raceWinner = "none"
    /\ timerPc = "unset"
    /\ response = <<>>
    /\ AgentIdle /\ GeoIdle /\ LayoutIdle /\ SynthIdle /\ DetectIdle

PipeNext ==
    \/ Stage3
    \/ Stage4Start
    \/ AgentThrows
    \/ AgentRateLimited
    \/ AgentBackoffDone
    \/ AgentRateLimitExhausted
    \/ AgentApiError
    \/ AgentEndTurn
    \/ AgentToolUse
    \/ AgentDelayDone
    \/ AgentStopped
    \/ TimerFire
    \/ HandlerRespond

SpecPipeline == PipeInit /\ [][PipeNext]_vars

\* one step of determineAdjacencyWithAgent: a response to the pending
\* request is handled, or a setTimeout wait of the loop ends
AgentNext ==
    \/ AgentThrows
    \/ AgentRateLimited
    \/ AgentBackoffDone
    \/ AgentRateLimitExhausted
    \/ AgentApiError
    \/ AgentEndTurn
    \/ AgentToolUse
    \/ AgentDelayDone
    \/ AgentStopped

\* the pipeline when every request is answered and every wait ends
SpecPipelineFair == PipeInit /\ [][PipeNext]_vars /\ WF_vars(AgentNext)

\* C2: once STAGE 3 has run, the rooms are the synthetic ones exactly when no
\* contour was detected or fewer than half of the semantic rooms were
\* matched; otherwise they are the matched ones, each carrying the box of a
\* detected contour; the response carries these rooms and the flag, so it
\* never mixes matched rooms with synthetic ones.
C2_SyntheticIffLowMatchRate ==
    handlerPc \in {"stage4", "await", "done"} =>
      LET m == matchRoomsToContours(claudeRooms, contours)
          low == Len(contours) = 0 \/ 2 * Len(m) < Len(claudeRooms)
      IN  /\ usedSyntheticContours <=> low
          /\ usedSyntheticContours =>
               unifiedRooms = generateSyntheticContours(claudeRooms)
          /\ ~usedSyntheticContours =>
               /\ unifiedRooms = m
               /\ \A i \in 1..Len(unifiedRooms) :
                    \E c \in 1..Len(contours) :
                      unifiedRooms[i].bbox = contours[c].bbox
          /\ response # <<>> =>
               /\ response[1].rooms = unifiedRooms
               /\ response[1].metadata.usedSyntheticContours
                    = usedSyntheticContours

\* some rooms were matched, but fewer than half: the matches are discarded
C2_Witness ==
    /\ handlerPc = "done"
    /\ usedSyntheticContours
    /\ Len(contours) > 0
    /\ Len(matchRoomsToContours(claudeRooms, contours)) = 1
    /\ Len(claudeRooms) = 3
    /\ Len(response[1].rooms) = 3

AgentFailures ==
    {"exception", "rate_limited", "api_error", "max_tokens",
     "unexpected_stop", "max_iterations", "no_text", "no_json",
     "parse_error", "empty_array"}

\* C3: with more than one room, a response sent after the agent failed
\* (non-OK answer, rate limit exhausted, truncated or unexpected stop, no
\* parsable or an empty final answer, iteration limit, exception) or after
\* the timeout carries exactly the geometric detector's adjacency list.
C3_FailureFallsBackToGeometric ==
    (/\ response # <<>>
     /\ Len(unifiedRooms) > 1
     /\ \/ agentOutcome \in AgentFailures
        \/ raceWinner = "timeout") =>
      response[1].adjacency = detectAdjacencyGeometric(unifiedRooms)

\* the agent lost its last retry to a rate limit before the timer fired and
\* the geometric detector found the neighbouring rooms
C3_Witness ==
    /\ response # <<>>
    /\ raceWinner = "agent"
    /\ agentOutcome = "rate_limited"
    /\ Len(unifiedRooms) > 1
    /\ Len(response[1].adjacency) > 0

\* C4: the race is settled once, by whichever of the agent and the timer
\* comes first; the response follows the winner (the agent's list, or the
\* geometric list after a timeout) and nothing that happens later changes it.
C4_RaceSettledOnce ==
    /\ [](response # <<>> =>
            /\ raceWinner \in {"agent", "timeout"}
            /\ response[1].adjacency
                 = stage4Adjacency(raceWinner, agentResult, unifiedRooms)
            /\ raceWinner = "timeout" =>
                 response[1].adjacency
                   = detectAdjacencyGeometric(unifiedRooms))
    /\ [][/\ raceWinner # "none" => raceWinner' = raceWinner
          /\ response # <<>> => response' = response]_vars

\* the timer won, the response was sent, and the agent then resolved with a
\* list that the response does not carry
C4_Witness ==
    /\ response # <<>>
    /\ raceWinner = "timeout"
    /\ timerPc = "fired"
    /\ agentPc = "resolved"
    /\ agentOutcome = "answered"
    /\ response[1].adjacency # agentResult

(***************************************************************************)
(* Layout engine (floorplanLayout.ts).  Lengths are integers in units of   *)
(* 0.05 m; room sides are multiples of 0.1 m, so that half a side is an    *)
(* integer.  Room ids are 1, 2, ...; NoId stands for a missing id.         *)
(***************************************************************************)
UnitsPerMeter == 20
WALL_THICKNESS == 2
OverlapTolerance == 1
GapMin == 3
GapMax == 10
unconnectedZ == -200
NoId == 0

Room(id, name, position, dimensions) ==
    [id |-> id, name |-> name, position |-> position,
     dimensions |-> dimensions]

\* dimensions: [room.width, ceilingHeight, room.depth]
dimensionsOf(room, ceilingHeight) == <<room.width, ceilingHeight, room.depth>>

\* the distance of two rooms with its sign, squared: -(overlap^2) when the
\* boxes overlap on both axes, dx^2 + dz^2 when they are apart on both, else
\* the square of the single-axis gap
calculateMinDistance(r1, r2) ==
    LET r1Left == r1.position[1] - r1.dimensions[1] \div 2
        r1Right == r1.position[1] + r1.dimensions[1] \div 2
        r1Back == r1.position[3] - r1.dimensions[3] \div 2
        r1Front == r1.position[3] + r1.dimensions[3] \div 2
        r2Left == r2.position[1] - r2.dimensions[1] \div 2
        r2Right == r2.position[1] + r2.dimensions[1] \div 2
        r2Back == r2.position[3] - r2.dimensions[3] \div 2
        r2Front == r2.position[3] + r2.dimensions[3] \div 2
        xOverlap == Max(0, Min(r1Right, r2Right) - Max(r1Left, r2Left))
        zOverlap == Max(0, Min(r1Front, r2Front) - Max(r1Back, r2Back))
        xDistance == Max(0, Max(r1Left, r2Left) - Min(r1Right, r2Right))
        zDistance == Max(0, Max(r1Back, r2Back) - Min(r1Front, r2Front))
    IN  IF xOverlap > 0 /\ zOverlap > 0
        THEN -(Min(xOverlap, zOverlap) * Min(xOverlap, zOverlap))
        ELSE IF xDistance > 0 /\ zDistance > 0
             THEN xDistance * xDistance + zDistance * zDistance
             ELSE Max(xDistance, zDistance) * Max(xDistance, zDistance)

RECURSIVE validatePairsNoTolerance(_, _, _, _)
\* validatePairs without the 0.05 m tolerance: any overlap counts
validatePairsNoTolerance(rooms, i, j, acc) ==
    IF i > Len(rooms) THEN acc
    ELSE IF j > Len(rooms)
         THEN validatePairsNoTolerance(rooms, i + 1, i + 2, acc)
    ELSE LET d == calculateMinDistance(rooms[i], rooms[j])
             pair == [room1 |-> rooms[i].id, room2 |-> rooms[j].id]
         IN  IF d < 0
             THEN validatePairsNoTolerance(rooms, i, j + 1,
                    [acc EXCEPT !.overlaps = Append(@, pair)])
             ELSE IF d > GapMin * GapMin /\ d < GapMax * GapMax
                  THEN validatePairsNoTolerance(rooms, i, j + 1,
                         [acc EXCEPT !.gaps = Append(@, pair)])
                  ELSE validatePairsNoTolerance(rooms, i, j + 1, acc)

RECURSIVE validatePairs(_, _, _, _)
\* the two loops of validateLayout from the pair (i, j) on
validatePairs(rooms, i, j, acc) ==
    IF i > Len(rooms) THEN acc
    ELSE IF j > Len(rooms) THEN validatePairs(rooms, i + 1, i + 2, acc)
    ELSE LET d == calculateMinDistance(rooms[i], rooms[j])
             pair == [room1 |-> rooms[i].id, room2 |-> rooms[j].id]
         IN  IF d < -(OverlapTolerance * OverlapTolerance)
             THEN validatePairs(rooms, i, j + 1,
                    [acc EXCEPT !.overlaps = Append(@, pair)])
             ELSE IF d > GapMin * GapMin /\ d < GapMax * GapMax
                  THEN validatePairs(rooms, i, j + 1,
                         [acc EXCEPT !.gaps = Append(@, pair)])
                  ELSE validatePairs(rooms, i, j + 1, acc)

validateLayout(rooms) ==
    LET r == validatePairs(rooms, 1, 2, [overlaps |-> <<>>, gaps |-> <<>>])
    IN  [isValid |-> Len(r.overlaps) = 0, overlaps |-> r.overlaps,
         gaps |-> r.gaps]

(***************************************************************************)
(* Strategy 1: positions from the image.  A scale (pixels per metre) is a  *)
(* fraction [n, d] in lowest terms.                                        *)
(***************************************************************************)
MinScale == 5
MaxScale == 500

RECURSIVE GCD(_, _)
GCD(a, b) == IF b = 0 THEN a ELSE GCD(b, a % b)

Frac(n, d) == LET g == GCD(n, d) IN [n |-> n \div g, d |-> d \div g]
FracLess(a, b) == a.n * b.d < b.n * a.d
FracMean(a, b) == Frac(a.n * b.d + b.n * a.d, 2 * a.d * b.d)

hasPixelData(room) == Len(room.centroid) > 0 /\ Len(room.bbox) > 0

\* <<>> for null, else <<scale>>
calculateScale(room) ==
    IF Len(room.bbox) = 0 \/ room.width = 0 \/ room.depth = 0 THEN <<>>
    ELSE LET avgScale ==
               Frac(UnitsPerMeter * (room.bbox[1].width * room.depth
                                     + room.bbox[1].height * room.width),
                    2 * room.width * room.depth)
         IN  IF avgScale.n < MinScale * avgScale.d
                \/ avgScale.n > MaxScale * avgScale.d
             THEN <<>>
             ELSE <<avgScale>>

RECURSIVE insertScale(_, _)
insertScale(sorted, x) ==
    IF sorted = <<>> THEN <<x>>
    ELSE IF FracLess(x, Head(sorted)) THEN <<x>> \o sorted
    ELSE <<Head(sorted)>> \o insertScale(Tail(sorted), x)

RECURSIVE sortedScales(_, _)
\* the scales of rooms[1..n] that are not null, ascending
sortedScales(rooms, n) ==
    IF n = 0 THEN <<>>
    ELSE LET sc == calculateScale(rooms[n])
         IN  IF sc = <<>> THEN sortedScales(rooms, n - 1)
             ELSE insertScale(sortedScales(rooms, n - 1), sc[1])

\* <<>> for null, else <<median scale>>
calculateGlobalScale(rooms) ==
    LET scales == sortedScales(rooms, Len(rooms))
        mid == Len(scales) \div 2
    IN  IF Len(scales) = 0 THEN <<>>
        ELSE IF Len(scales) % 2 = 0
             THEN <<FracMean(scales[mid], scales[mid + 1])>>
             ELSE <<scales[mid + 1]>>

\* (pixel - origin) / scale, where origin is sum / count, rounded to the
\* length unit
pixelToWorld(pixelPos, scale, sum, count) ==
    <<RoundDiv(UnitsPerMeter * (count * pixelPos.x - sum.x) * scale.d,
               count * scale.n),
      0,
      RoundDiv(UnitsPerMeter * (count * pixelPos.y - sum.y) * scale.d,
               count * scale.n)>>

\* the sums of calculateImageOrigin; the origin is sum / Len(rooms)
calculateImageOrigin(rooms) ==
    [x |-> SumSeq([i \in 1..Len(rooms) |-> rooms[i].centroid[1].x],
                  Len(rooms)),
     y |-> SumSeq([i \in 1..Len(rooms) |-> rooms[i].centroid[1].y],
                  Len(rooms))]

roomsWithPixelData(rooms) ==
    LET idx == SelectIdx({i \in 1..Len(rooms) : hasPixelData(rooms[i])},
                         Len(rooms))
    IN  [k \in 1..Len(idx) |-> rooms[idx[k]]]

\* mutant of arrangeFromImagePositions: no test of the share of rooms that
\* carry pixel data
arrangeFromImagePositionsAnyShare(ai) ==
    LET withPixels == roomsWithPixelData(ai.rooms)
        scale == calculateGlobalScale(withPixels)
        sum == calculateImageOrigin(withPixels)
    IN  IF scale = <<>> THEN <<>>
        ELSE <<[i \in 1..Len(ai.rooms) |->
                  LET room == ai.rooms[i]
                  IN  Room(room.id, room.name,
                           IF Len(room.centroid) = 0 THEN <<0, 0, 0>>
                           ELSE pixelToWorld(room.centroid[1], scale[1], sum,
                                             Len(withPixels)),
                           dimensionsOf(room, ai.ceilingHeight))]>>

\* <<>> for null, else <<the positioned rooms>>
arrangeFromImagePositions(ai) ==
    LET withPixels == roomsWithPixelData(ai.rooms)
        scale == calculateGlobalScale(withPixels)
        sum == calculateImageOrigin(withPixels)
    IN  IF 2 * Len(withPixels) < Len(ai.rooms) THEN <<>>
        ELSE IF scale = <<>> THEN <<>>
        ELSE <<[i \in 1..Len(ai.rooms) |->
                  LET room == ai.rooms[i]
                  IN  Room(room.id, room.name,
                           IF Len(room.centroid) = 0 THEN <<0, 0, 0>>
                           ELSE pixelToWorld(room.centroid[1], scale[1], sum,
                                             Len(withPixels)),
                           dimensionsOf(room, ai.ceilingHeight))]>>

(***************************************************************************)
(* Strategy 3: arrangeInGrid                                               *)
(***************************************************************************)
\* the category keywords that name.toLowerCase() includes
keywordsOf(name) ==
    CASE name = "Hallway" -> {"hall"}
      [] name = "Kitchen/Living Room" -> {"kitchen", "living"}
      [] name = "Bedroom" -> {"bedroom"}
      [] name = "Bathroom" -> {"bathroom"}
      [] name = "Reception Hall" -> {"reception", "hall"}
      [] name = "Kitchen" -> {"kitchen"}
      [] OTHER -> {}

nameIncludes(room, keyword) == keyword \in keywordsOf(room.name)

\* rooms.filter(r => keep(r)), given the set of the indices kept
filterRooms(rooms, kept) ==
    LET idx == SelectIdx(kept, Len(rooms))
    IN  [k \in 1..Len(idx) |-> rooms[idx[k]]]

isReception(room) ==
    \/ nameIncludes(room, "reception")
    \/ nameIncludes(room, "living")
    \/ nameIncludes(room, "lounge")

isBathroom(room) == nameIncludes(room, "bathroom") \/ nameIncludes(room, "wc")

RECURSIVE findKitchen(_, _)
\* rooms.find(r => name includes 'kitchen'): its index, 0 if none
findKitchen(rooms, i) ==
    IF i > Len(rooms) THEN 0
    ELSE IF nameIncludes(rooms[i], "kitchen") THEN i
    ELSE findKitchen(rooms, i + 1)

\* value > optimalWidth * tenths / 10, where
\* optimalWidth = Math.sqrt(totalAreaSqM * 1.5) metres
exceedsOptimal(value, tenths, totalAreaSqM) ==
    /\ value > 0
    /\ 100 * value * value
         > tenths * tenths * ((UnitsPerMeter * UnitsPerMeter * 3) \div 2)
             * totalAreaSqM

gridStart ==
    [finalRooms |-> <<>>, placedIds |-> {}, currentX |-> 0, currentZ |-> 0,
     maxRowHeight |-> 0, currentRowWidth |-> 0]

\* mutant of placeRoom: a new row starts at the z of the row before
placeRoomSameZ(st, room, forceNewRow, ai) ==
    IF room.id \in st.placedIds THEN st
    ELSE LET newRow ==
               \/ forceNewRow
               \/ /\ exceedsOptimal(st.currentRowWidth + room.width, 10,
                                    ai.totalAreaSqM)
                  /\ Len(st.finalRooms) > 0
             x0 == IF newRow THEN 0 ELSE st.currentX
         IN  [finalRooms |->
                Append(st.finalRooms,
                       Room(room.id, room.name,
                            <<x0 + room.width \div 2, 0,
                              st.currentZ + room.depth \div 2>>,
                            dimensionsOf(room, ai.ceilingHeight))),
              placedIds |-> st.placedIds \cup {room.id},
              currentX |-> x0 + room.width + WALL_THICKNESS,
              currentZ |-> st.currentZ,
              maxRowHeight |-> Max(st.maxRowHeight, room.depth),
              currentRowWidth |->
                (IF newRow THEN 0 ELSE st.currentRowWidth)
                  + room.width + WALL_THICKNESS]

\* mutant of placeRoom: without the placedIds guard
placeRoomNoSkip(st, room, forceNewRow, ai) ==
    LET newRow ==
          \/ forceNewRow
          \/ /\ exceedsOptimal(st.currentRowWidth + room.width, 10,
                               ai.totalAreaSqM)
             /\ Len(st.finalRooms) > 0
        x0 == IF newRow THEN 0 ELSE st.currentX
        z0 == IF newRow
              THEN st.currentZ + st.maxRowHeight + WALL_THICKNESS
              ELSE st.currentZ
        h0 == IF newRow THEN 0 ELSE st.maxRowHeight
        w0 == IF newRow THEN 0 ELSE st.currentRowWidth
    IN  [finalRooms |->
           Append(st.finalRooms,
                  Room(room.id, room.name,
                       <<x0 + room.width \div 2, 0, z0 + room.depth \div 2>>,
                       dimensionsOf(room, ai.ceilingHeight))),
         placedIds |-> st.placedIds \cup {room.id},
         currentX |-> x0 + room.width + WALL_THICKNESS,
         currentZ |-> z0,
         maxRowHeight |-> Max(h0, room.depth),
         currentRowWidth |-> w0 + room.width + WALL_THICKNESS]

\* lines 910-939
placeRoom(st, room, forceNewRow, ai) ==
    IF room.id \in st.placedIds THEN st
    ELSE LET newRow ==
               \/ forceNewRow
               \/ /\ exceedsOptimal(st.currentRowWidth + room.width, 10,
                                    ai.totalAreaSqM)
                  /\ Len(st.finalRooms) > 0
             x0 == IF newRow THEN 0 ELSE st.currentX
             z0 == IF newRow
                   THEN st.currentZ + st.maxRowHeight + WALL_THICKNESS
                   ELSE st.currentZ
             h0 == IF newRow THEN 0 ELSE st.maxRowHeight
             w0 == IF newRow THEN 0 ELSE st.currentRowWidth
         IN  [finalRooms |->
                Append(st.finalRooms,
                       Room(room.id, room.name,
                            <<x0 + room.width \div 2, 0,
                              z0 + room.depth \div 2>>,
                            dimensionsOf(room, ai.ceilingHeight))),
              placedIds |-> st.placedIds \cup {room.id},
              currentX |-> x0 + room.width + WALL_THICKNESS,
              currentZ |-> z0,
              maxRowHeight |-> Max(h0, room.depth),
              currentRowWidth |-> w0 + room.width + WALL_THICKNESS]

\* the forceNewRow argument of the idx-th room (from 1) of a category
shouldStartNewRow(category, list, idx, st, ai) ==
    CASE category = "reception" ->
           idx > 1 /\ exceedsOptimal(list[idx - 1].width, 6, ai.totalAreaSqM)
      [] category = "kitchen" ->
           exceedsOptimal(st.currentRowWidth, 7, ai.totalAreaSqM)
      [] category = "hallways" ->
           idx = 1 /\ exceedsOptimal(st.currentRowWidth, 5, ai.totalAreaSqM)
      [] category = "bedrooms" -> idx = 1
      [] category = "bathrooms" ->
           exceedsOptimal(st.currentRowWidth, 9, ai.totalAreaSqM)
      [] OTHER -> FALSE

RECURSIVE placeCategory(_, _, _, _, _)
\* list.forEach((room, idx) => placeRoom(room, shouldStartNewRow))
placeCategory(st, category, list, idx, ai) ==
    IF idx > Len(list) THEN st
    ELSE placeCategory(
           placeRoom(st, list[idx],
                     shouldStartNewRow(category, list, idx, st, ai), ai),
           category, list, idx + 1, ai)

arrangeInGrid(ai) ==
    LET rooms == ai.rooms
        all == 1..Len(rooms)
        entry == findIndex(rooms, ai.entryRoomId, 1)
        kitchen == findKitchen(rooms, 1)
        receptionRooms == filterRooms(rooms, {i \in all : isReception(rooms[i])})
        bedrooms ==
          filterRooms(rooms, {i \in all : nameIncludes(rooms[i], "bedroom")})
        bathrooms == filterRooms(rooms, {i \in all : isBathroom(rooms[i])})
        hallways ==
          filterRooms(rooms, {i \in all : /\ nameIncludes(rooms[i], "hall")
                                          /\ rooms[i].id # ai.entryRoomId})
        categorized ==
          {ai.entryRoomId}
            \cup {rooms[i].id : i \in {j \in all : isReception(rooms[j])}}
            \cup {rooms[i].id :
                    i \in {j \in all : nameIncludes(rooms[j], "bedroom")}}
            \cup {rooms[i].id : i \in {j \in all : isBathroom(rooms[j])}}
            \cup (IF kitchen # 0 THEN {rooms[kitchen].id} ELSE {})
            \cup {rooms[i].id :
                    i \in {j \in all : /\ nameIncludes(rooms[j], "hall")
                                       /\ rooms[j].id # ai.entryRoomId}}
        otherRooms ==
          filterRooms(rooms, {i \in all : rooms[i].id \notin categorized})
        s1 == IF entry # 0
              THEN placeRoom(gridStart, rooms[entry], FALSE, ai)
              ELSE gridStart
        s2 == placeCategory(s1, "reception", receptionRooms, 1, ai)
        s3 == IF kitchen # 0
              THEN placeCategory(s2, "kitchen", <<rooms[kitchen]>>, 1, ai)
              ELSE s2
        s4 == placeCategory(s3, "hallways", hallways, 1, ai)
        s5 == placeCategory(s4, "bedrooms", bedrooms, 1, ai)
        s6 == placeCategory(s5, "bathrooms", bathrooms, 1, ai)
        s7 == placeCategory(s6, "others", otherRooms, 1, ai)
    IN  s7.finalRooms

(***************************************************************************)
(* Strategy 2: arrangeWithBFS                                              *)
(***************************************************************************)
getOppositeEdge(edge) ==
    CASE edge = "north" -> "south"
      [] edge = "south" -> "north"
      [] edge = "east" -> "west"
      [] edge = "west" -> "east"

\* mutant of calculateAdjacentPosition: no wall between the two rooms
calculateAdjacentPositionNoWall(baseRoom, newDimensions, edge) ==
    LET baseX == baseRoom.position[1]
        baseZ == baseRoom.position[3]
        halfW == baseRoom.dimensions[1] \div 2 + newDimensions[1] \div 2
        halfD == baseRoom.dimensions[3] \div 2 + newDimensions[3] \div 2
    IN  CASE edge = "north" -> <<baseX, 0, baseZ + halfD>>
          [] edge = "south" -> <<baseX, 0, baseZ - halfD>>
          [] edge = "east" -> <<baseX + halfW, 0, baseZ>>
          [] edge = "west" -> <<baseX - halfW, 0, baseZ>>

calculateAdjacentPosition(baseRoom, newDimensions, edge) ==
    LET baseX == baseRoom.position[1]
        baseZ == baseRoom.position[3]
        baseWidth == baseRoom.dimensions[1]
        baseDepth == baseRoom.dimensions[3]
        newWidth == newDimensions[1]
        newDepth == newDimensions[3]
    IN  CASE edge = "north" ->
               <<baseX, 0,
                 baseZ + baseDepth \div 2 + newDepth \div 2 + WALL_THICKNESS>>
          [] edge = "south" ->
               <<baseX, 0,
                 baseZ - baseDepth \div 2 - newDepth \div 2 - WALL_THICKNESS>>
          [] edge = "east" ->
               <<baseX + baseWidth \div 2 + newWidth \div 2 + WALL_THICKNESS,
                 0, baseZ>>
          [] edge = "west" ->
               <<baseX - baseWidth \div 2 - newWidth \div 2 - WALL_THICKNESS,
                 0, baseZ>>

RECURSIVE adjacencyMapGet(_, _, _)
\* adjacencyMap.get(id) || [], built from adjacency[1..n]: each relation adds
\* its forward edge to room1's list and its reverse edge to room2's list
\* (relation and reversed tell which relation an entry comes from)
adjacencyMapGet(adjacency, id, n) ==
    IF n = 0 THEN <<>>
    ELSE LET adj == adjacency[n]
             before == adjacencyMapGet(adjacency, id, n - 1)
             forward == IF adj.room1 = id
                        THEN <<[roomId |-> adj.room2, edge |-> adj.edge,
                                relation |-> n, reversed |-> FALSE]>>
                        ELSE <<>>
             reverse == IF adj.room2 = id
                        THEN <<[roomId |-> adj.room1,
                                edge |-> getOppositeEdge(adj.edge),
                                relation |-> n, reversed |-> TRUE]>>
                        ELSE <<>>
         IN  before \o forward \o reverse

positionedHas(map, id) == \E k \in 1..Len(map) : map[k].id = id
positionedGet(map, id) == map[findIndex(map, id, 1)]

RECURSIVE visitNeighbors(_, _, _, _, _)
\* the for loop over the neighbours of currentRoom, from the i-th on;
\* st = [positioned, queue, trace]
visitNeighbors(st, currentRoom, neighbors, i, ai) ==
    IF i > Len(neighbors) THEN st
    ELSE LET neighbor == neighbors[i]
             nd == findIndex(ai.rooms, neighbor.roomId, 1)
         IN  IF positionedHas(st.positioned, neighbor.roomId) \/ nd = 0
             THEN visitNeighbors(st, currentRoom, neighbors, i + 1, ai)
             ELSE LET neighborData == ai.rooms[nd]
                      dims == dimensionsOf(neighborData, ai.ceilingHeight)
                      newPosition ==
                        calculateAdjacentPosition(currentRoom, dims,
                                                  neighbor.edge)
                  IN  visitNeighbors(
                        [positioned |->
                           Append(st.positioned,
                                  Room(neighborData.id, neighborData.name,
                                       newPosition, dims)),
                         queue |-> Append(st.queue, neighbor.roomId),
                         trace |->
                           Append(st.trace,
                                  [id |-> neighborData.id,
                                   base |-> currentRoom.id,
                                   relation |-> neighbor.relation,
                                   reversed |-> neighbor.reversed])],
                        currentRoom, neighbors, i + 1, ai)

RECURSIVE placeUnconnectedAll(_, _, _, _)
\* mutant of placeUnconnected: rooms already positioned are placed again
placeUnconnectedAll(map, i, offsetX, ai) ==
    IF i > Len(ai.rooms) THEN map
    ELSE LET room == ai.rooms[i]
         IN  placeUnconnectedAll(
               Append(map,
                      Room(room.id, room.name,
                           <<offsetX + room.width \div 2, 0, unconnectedZ>>,
                           dimensionsOf(room, ai.ceilingHeight))),
               i + 1, offsetX + room.width + WALL_THICKNESS, ai)

RECURSIVE placeUnconnected(_, _, _, _)
\* lines 766-785, from the i-th room on
placeUnconnected(map, i, offsetX, ai) ==
    IF i > Len(ai.rooms) THEN map
    ELSE LET room == ai.rooms[i]
         IN  IF positionedHas(map, room.id)
             THEN placeUnconnected(map, i + 1, offsetX, ai)
             ELSE placeUnconnected(
                    Append(map,
                           Room(room.id, room.name,
                                <<offsetX + room.width \div 2, 0,
                                  unconnectedZ>>,
                                dimensionsOf(room, ai.ceilingHeight))),
                    i + 1, offsetX + room.width + WALL_THICKNESS, ai)

\* entryRoomId || rooms[0].id; reading rooms[0].id of an empty list throws
startRoomId(ai) ==
    IF ai.entryRoomId # NoId THEN ai.entryRoomId ELSE ai.rooms[1].id

(***************************************************************************)
(* calculateConnectedLayout                                                *)
(***************************************************************************)
\* lines 566-586: the image-based layout when it is tried and succeeds
imageBasedLayout(ai) ==
    IF ai.usedSyntheticContours THEN <<>>
    ELSE arrangeFromImagePositions(ai)

layoutRest == <<matchVars, handlerVars, agentVars, geoVars, synthVars, detectVars>>

LayoutDone(name, rooms) ==
    /\ strategy' = name
    /\ layoutRooms' = rooms
    /\ layoutPc' = "laid"
    /\ UNCHANGED <<positioned, queue, bfsTrace>>

\* calculateConnectedLayout up to the strategy's result or, for the
\* breadth-first strategy, up to the head of its while loop
CalculateConnectedLayout ==
    /\ layoutPc = "start"
    /\ LET ai == aiResponse
           image == imageBasedLayout(ai)
       IN  IF image # <<>> THEN LayoutDone("image", image[1])
           ELSE IF Len(ai.adjacency) = 0
                THEN LayoutDone("grid", arrangeInGrid(ai))
           ELSE IF ai.entryRoomId = NoId /\ Len(ai.rooms) = 0
                THEN \* rooms[0].id throws a TypeError
                     /\ layoutPc' = "threw"
                     /\ UNCHANGED <<strategy, layoutRooms, positioned, queue,
                                    bfsTrace>>
           ELSE LET start == findIndex(ai.rooms, startRoomId(ai), 1)
                IN  IF start = 0
                    THEN LayoutDone("grid", arrangeInGrid(ai))
                    ELSE /\ strategy' = "bfs"
                         /\ positioned' =
                              <<Room(ai.rooms[start].id, ai.rooms[start].name,
                                     <<0, 0, 0>>,
                                     dimensionsOf(ai.rooms[start],
                                                  ai.ceilingHeight))>>
                         /\ queue' = <<ai.rooms[start].id>>
                         /\ layoutPc' = "bfs"
                         /\ UNCHANGED <<bfsTrace, layoutRooms>>
    /\ UNCHANGED <<aiResponse, validation>>
    /\ UNCHANGED layoutRest

\* one turn of the while loop of arrangeWithBFS
BfsVisit ==
    /\ layoutPc = "bfs"
    /\ queue # <<>>
    /\ LET currentRoomId == Head(queue)
           st == visitNeighbors(
                   [positioned |-> positioned, queue |-> Tail(queue),
                    trace |-> bfsTrace],
                   positionedGet(positioned, currentRoomId),
                   adjacencyMapGet(aiResponse.adjacency, currentRoomId,
                                   Len(aiResponse.adjacency)),
                   1, aiResponse)
       IN  /\ positioned' = st.positioned
           /\ queue' = st.queue
           /\ bfsTrace' = st.trace
    /\ UNCHANGED <<aiResponse, layoutPc, strategy, layoutRooms, validation>>
    /\ UNCHANGED layoutRest

\* the queue is empty: the unconnected rooms, then the result
BfsPlaceUnconnected ==
    /\ layoutPc = "bfs"
    /\ queue = <<>>
    /\ positioned' = placeUnconnected(positioned, 1, 0, aiResponse)
    /\ layoutRooms' = positioned'
    /\ layoutPc' = "laid"
    /\ UNCHANGED <<aiResponse, strategy, queue, bfsTrace, validation>>
    /\ UNCHANGED layoutRest

ValidateLayout ==
    /\ layoutPc = "laid"
    /\ validation' = <<validateLayout(layoutRooms)>>
    /\ layoutPc' = "validated"
    /\ UNCHANGED <<aiResponse, strategy, positioned, queue, bfsTrace,
                   layoutRooms>>
    /\ UNCHANGED layoutRest

(***************************************************************************)
(* Inputs of the layout engine                                             *)
(***************************************************************************)
MaxLayoutRooms == 3
CeilingHeight == 48

\* name, width, depth: 2x2 m, 3x2 m, 2x7 m, 3x3 m, 0x2 m
LayoutKind(k) ==
    CASE k = 1 -> [name |-> "Hallway", width |-> 40, depth |-> 40]
      [] k = 2 -> [name |-> "Kitchen/Living Room", width |-> 60, depth |-> 40]
      [] k = 3 -> [name |-> "Bedroom", width |-> 40, depth |-> 140]
      [] k = 4 -> [name |-> "Bathroom", width |-> 60, depth |-> 60]
      [] OTHER -> [name |-> "Store", width |-> 0, depth |-> 40]

\* the kinds the i-th room is drawn from
KindChoices(i) ==
    CASE i <= 2 -> {1, 2, 3}
      [] i = 3 -> {1, 4, 5}
      [] OTHER -> {3, 4, 5}

\* which rooms carry centroid and bbox: none; the first only; all (drawn at
\* 20 px/m, the second room at 40 px/m); all with a box of 1x1 px; all, from
\* synthetic contours
PixelModes == {"none", "first", "all", "tiny", "synthetic"}

LayoutRoom(i, k, mode) ==
    LET kind == LayoutKind(k)
        has == mode \in {"all", "tiny", "synthetic"} \/ (mode = "first" /\ i = 1)
        pxPerUnit == IF i = 2 THEN 2 ELSE 1
    IN  [id |-> i, name |-> kind.name, width |-> kind.width,
         depth |-> kind.depth,
         centroid |-> IF has THEN <<Pt(100 * i, 100 + 60 * (i % 2))>> ELSE <<>>,
         bbox |-> IF ~has THEN <<>>
                  ELSE IF mode = "tiny"
                       THEN <<Box(100 * i, 100 + 60 * (i % 2), 1, 1)>>
                       ELSE <<Box(100 * i - (kind.width * pxPerUnit) \div 2,
                                  100 + 60 * (i % 2)
                                    - (kind.depth * pxPerUnit) \div 2,
                                  kind.width * pxPerUnit,
                                  kind.depth * pxPerUnit)>>]

Relation(a, b, e) == [room1 |-> a, room2 |-> b, edge |-> e]

AdjacencyChoices ==
    {<<>>, <<Relation(1, 9, "east")>>}
      \cup {<<Relation(1, 2, e)>> : e \in {"north", "south", "east", "west"}}
      \cup {<<Relation(1, 2, e), Relation(2, 3, f)>> :
              e \in {"north", "south", "east", "west"},
              f \in {"south", "east"}}
      \* a cycle; a self-loop; a duplicated, a reversed and an unknown relation
      \cup {<<Relation(1, 2, "east"), Relation(2, 3, "south"),
               Relation(3, 1, "north")>>,
             <<Relation(1, 1, "east"), Relation(2, 1, "north")>>,
             <<Relation(1, 2, "east"), Relation(1, 2, "south"),
               Relation(2, 1, "west"), Relation(9, 3, "north")>>}

EntryChoices == {NoId, 2, 9}
TotalAreaChoices == {4, 30}

LayoutInit ==
    /\ \E n \in 0..MaxLayoutRooms :
         \E k \in [1..n -> 1..5], mode \in PixelModes,
            adj \in AdjacencyChoices, entry \in EntryChoices,
            area \in TotalAreaChoices :
           /\ \A i \in 1..n : k[i] \in KindChoices(i)
           /\ aiResponse =
                [rooms |-> [i \in 1..n |-> LayoutRoom(i, k[i], mode)],
                 adjacency |-> adj,
                 entryRoomId |-> entry,
                 totalAreaSqM |-> area,
                 ceilingHeight |-> CeilingHeight,
                 usedSyntheticContours |-> mode = "synthetic"]
    /\ layoutPc = "start"
    /\ strategy = "none"
    /\ positioned = <<>>
    /\ queue = <<>>
    /\ bfsTrace = <<>>
    /\ layoutRooms = <<>>
    /\ validation = <<>>
    /\ MatchIdle /\ HandlerIdle /\ AgentIdle /\ GeoIdle /\ SynthIdle /\ DetectIdle

LayoutNext ==
    \/ CalculateConnectedLayout
    \/ BfsVisit
    \/ BfsPlaceUnconnected
    \/ ValidateLayout

SpecLayout == LayoutInit /\ [][LayoutNext]_vars

\* one step of arrangeWithBFS after its start room is placed
BfsNext == BfsVisit \/ BfsPlaceUnconnected

\* the inputs that reach arrangeWithBFS with relations: no room carries
\* pixel data
BfsInit ==
    /\ LayoutInit
    /\ aiResponse.adjacency # <<>>
    /\ aiResponse.totalAreaSqM = 30
    /\ \A i \in 1..Len(aiResponse.rooms) : aiResponse.rooms[i].centroid = <<>>

\* arrangeWithBFS runs to completion: it is one synchronous call
SpecBfsFair == BfsInit /\ [][LayoutNext]_vars /\ WF_vars(BfsNext)

\* C5: for a non-empty room list calculateConnectedLayout returns the result
\* of exactly one strategy: the pixel-position strategy when the synthetic
\* flag is not set, at least half of the rooms carry centroid and bbox and a
\* global scale can be computed; otherwise the breadth-first strategy when
\* the adjacency list is non-empty and the start room (entryRoomId, or the
\* first room when there is none) is in the room list; otherwise the grid.
C5_StrategyOrder ==
    Len(aiResponse.rooms) > 0 =>
      LET ai == aiResponse
          n == Len(ai.rooms)
          pixelRooms == {i \in 1..n : /\ ai.rooms[i].centroid # <<>>
                                      /\ ai.rooms[i].bbox # <<>>}
          pixelOk == /\ ~ai.usedSyntheticContours
                     /\ 2 * Cardinality(pixelRooms) >= n
                     /\ calculateGlobalScale(roomsWithPixelData(ai.rooms))
                          # <<>>
          startId == IF ai.entryRoomId # NoId THEN ai.entryRoomId
                     ELSE ai.rooms[1].id
          bfsOk == /\ Len(ai.adjacency) > 0
                   /\ \E i \in 1..n : ai.rooms[i].id = startId
          expected == IF pixelOk THEN "image"
                      ELSE IF bfsOk THEN "bfs" ELSE "grid"
      IN  /\ layoutPc # "threw"
          /\ layoutPc # "start" => strategy = expected
          /\ layoutPc \in {"laid", "validated"} =>
               /\ strategy = "image" =>
                    layoutRooms = arrangeFromImagePositions(ai)[1]
               /\ strategy = "grid" => layoutRooms = arrangeInGrid(ai)
               /\ strategy = "bfs" => layoutRooms = positioned
          /\ strategy # "bfs" => positioned = <<>> /\ bfsTrace = <<>>

\* every room carries pixel data but no scale can be computed, an adjacency
\* list is given but the entry room is unknown: the grid strategy ran
C5_Witness ==
    /\ layoutPc = "laid"
    /\ strategy = "grid"
    /\ Len(aiResponse.rooms) = 3
    /\ \A i \in 1..3 : hasPixelData(aiResponse.rooms[i])
    /\ ~aiResponse.usedSyntheticContours
    /\ Len(aiResponse.adjacency) > 0
    /\ aiResponse.entryRoomId = 9
    /\ Len(layoutRooms) = 3

\* C6: whatever the names, sides and entry room, validateLayout reports no
\* overlap in the layout of the grid strategy.
C6_GridLayoutHasNoOverlaps ==
    (layoutPc = "validated" /\ strategy = "grid") =>
      /\ validation[1].overlaps = <<>>
      /\ validation[1].isValid

\* three rooms on two rows, the first matching two categories and the
\* entry room being a hallway
C6_Witness ==
    /\ layoutPc = "validated"
    /\ strategy = "grid"
    /\ Len(layoutRooms) = 3
    /\ aiResponse.rooms[1].name = "Kitchen/Living Room"
    /\ aiResponse.rooms[2].name = "Hallway"
    /\ aiResponse.entryRoomId = 2
    /\ layoutRooms[1].id = 2
    /\ \E i, j \in 1..3 :
         layoutRooms[i].position[3] - layoutRooms[i].dimensions[3] \div 2
           > layoutRooms[j].position[3] - layoutRooms[j].dimensions[3] \div 2

\* C7: the start room is at [0,0,0]; a room first reached from a placed room
\* B over a relation is placed, along the relation's direction (the opposite
\* one when it is read from room2 to room1), at B's position offset by half
\* of B's extent plus half of its own extent plus 0.1 m, with B's
\* perpendicular coordinate and y = 0; a 3 m wide kitchen east of a 2 m wide
\* entry is at [2.6, 0, 0].
C7_BfsPlacement ==
    /\ positioned # <<>> =>
         /\ positioned[1].position = <<0, 0, 0>>
         /\ positioned[1].id = IF aiResponse.entryRoomId # NoId
                               THEN aiResponse.entryRoomId
                               ELSE aiResponse.rooms[1].id
    /\ \A t \in 1..Len(bfsTrace) :
         LET rel == aiResponse.adjacency[bfsTrace[t].relation]
             R == positioned[t + 1]
             B == CHOOSE b \in {positioned[k] : k \in 1..t} :
                    b.id = bfsTrace[t].base
             forward == rel.room1 = B.id /\ rel.room2 = R.id
             backward == rel.room2 = B.id /\ rel.room1 = R.id
             d == IF forward THEN rel.edge
                  ELSE CASE rel.edge = "east" -> "west"
                         [] rel.edge = "west" -> "east"
                         [] rel.edge = "north" -> "south"
                         [] rel.edge = "south" -> "north"
             alongX == B.dimensions[1] \div 2 + R.dimensions[1] \div 2 + 2
             alongZ == B.dimensions[3] \div 2 + R.dimensions[3] \div 2 + 2
         IN  /\ R.id = bfsTrace[t].id
             /\ forward \/ backward
             /\ R.position[2] = 0
             /\ d = "east" => /\ R.position[1] = B.position[1] + alongX
                              /\ R.position[3] = B.position[3]
             /\ d = "west" => /\ R.position[1] = B.position[1] - alongX
                              /\ R.position[3] = B.position[3]
             /\ d = "north" => /\ R.position[3] = B.position[3] + alongZ
                               /\ R.position[1] = B.position[1]
             /\ d = "south" => /\ R.position[3] = B.position[3] - alongZ
                               /\ R.position[1] = B.position[1]
    /\ (/\ Len(positioned) >= 2
        /\ aiResponse.entryRoomId = NoId
        /\ aiResponse.rooms[1].width = 40
        /\ aiResponse.rooms[2].width = 60
        /\ aiResponse.adjacency[1] = Relation(1, 2, "east")) =>
         /\ positioned[2].id = 2
         /\ positioned[2].position = <<52, 0, 0>>

\* the start room is room 2: the relation (1, 2, east) was read from room2
\* to room1 and put room 1 west of room 2; room 3 was then placed from
\* room 2
C7_Witness ==
    /\ layoutPc = "laid"
    /\ strategy = "bfs"
    /\ aiResponse.entryRoomId = 2
    /\ aiResponse.adjacency[1] = Relation(1, 2, "east")
    /\ Len(bfsTrace) = 2
    /\ bfsTrace[1].id = 1
    /\ bfsTrace[1].reversed
    /\ positioned[2].position[1] < 0
    /\ bfsTrace[2].id = 3

\* C8: in a layout of the breadth-first strategy validateLayout reports no
\* overlap between a room of the overflow row and a room placed by the
\* traversal.
C8_OverflowRowNeverOverlaps ==
    (layoutPc = "validated" /\ strategy = "bfs") =>
      LET traversed == {layoutRooms[1].id}
                         \cup {bfsTrace[t].id : t \in 1..Len(bfsTrace)}
      IN  \A o \in 1..Len(validation[1].overlaps) :
            LET pair == validation[1].overlaps[o]
            IN  (pair.room1 \in traversed) <=> (pair.room2 \in traversed)

(***************************************************************************)
(* C11: containment beats proximity.  When a room is processed and its     *)
(* label lies strictly inside the bbox of a contour not yet used, the room *)
(* is matched, and not to a contour whose bbox the label lies strictly     *)
(* outside of.                                                             *)
(***************************************************************************)
strictlyInside(point, bbox) ==
    /\ point.x > bbox.x /\ point.x < bbox.x + bbox.width
    /\ point.y > bbox.y /\ point.y < bbox.y + bbox.height

strictlyOutside(point, bbox) ==
    \/ point.x < bbox.x \/ point.x > bbox.x + bbox.width
    \/ point.y < bbox.y \/ point.y > bbox.y + bbox.height

C11_ContainmentBeatsProximity ==
    \A r \in 1..roomIdx :
      LET room == claudeRooms[r]
          entries == {a \in 1..Len(matchLog) : matchLog[a].room = room.id}
          usedBefore == {matchLog[a].bestIndex :
                           a \in {b \in 1..Len(matchLog) : matchLog[b].room < room.id}}
          free == (1..Len(filteredContours)) \ usedBefore
      IN  (/\ room.labelPosition # <<>>
           /\ \E A \in free :
                strictlyInside(room.labelPosition[1], filteredContours[A].bbox))
          => /\ entries # {}
             /\ \A a \in entries :
                  ~strictlyOutside(room.labelPosition[1],
                                   filteredContours[matchLog[a].bestIndex].bbox)

(***************************************************************************)
(* generateSyntheticContours, STEP 1 (overlap resolution) step by step:    *)
(* one action per pair (i, j) of the two nested loops                      *)
(***************************************************************************)
MaxSynthRooms == 3

\* labels on the line y = 500, 300 px and 10 px apart, and one 20 px below
\* the second
SynthLabelChoices ==
    {<<>>, <<Pt(100, 500)>>, <<Pt(400, 500)>>, <<Pt(410, 500)>>,
     <<Pt(400, 520)>>}

SynthWidthChoices == {2, 4}

SynthInit ==
    /\ \E n \in 0..MaxSynthRooms :
         \E l \in [1..n -> SynthLabelChoices], w \in [1..n -> SynthWidthChoices] :
           synthRooms = [i \in 1..n |-> SemanticRoom(i, "room", w[i], 2, l[i])]
    /\ roomData = <<>>
    /\ synthI = 0
    /\ synthJ = 0
    /\ synthUnified = <<>>
    /\ synthPc = "start"
    /\ MatchIdle /\ HandlerIdle /\ AgentIdle /\ GeoIdle /\ LayoutIdle /\ DetectIdle

\* lines 452-481: the scale and roomData of the rooms with labelPosition
SynthStart ==
    /\ synthPc = "start"
    /\ roomData' =
         IF Len(synthRooms) = 0 THEN <<>>
         ELSE LET scale == pixelsPerSqMeter(synthRooms)
                  lab == roomsWithLabels(synthRooms)
              IN  [k \in 1..Len(lab) |->
                     [room |-> lab[k],
                      width |-> synthRooms[lab[k]].width * scale,
                      height |-> synthRooms[lab[k]].depth * scale,
                      labelPos |-> LabelOf(synthRooms[lab[k]]),
                      centroid |-> Pt(LabelOf(synthRooms[lab[k]]).x * 10,
                                      LabelOf(synthRooms[lab[k]]).y * 10)]]
    /\ synthI' = 1
    /\ synthJ' = 2
    /\ synthPc' = "resolve"
    /\ UNCHANGED <<synthRooms, synthUnified>>
    /\ UNCHANGED <<matchVars, handlerVars, agentVars, geoVars, layoutVars,
                   detectVars>>

\* lines 487-512: the body of the inner loop for the pair (i, j), then the
\* loop headers up to the next pair
ResolvePair ==
    /\ synthPc = "resolve"
    /\ synthJ <= Len(roomData)
    /\ LET r1 == roomData[synthI]
           r2 == roomData[synthJ]
           push == pairPush(synthRooms[r1.room], synthRooms[r2.room],
                            pixelsPerSqMeter(synthRooms))
       IN  roomData' =
             [roomData EXCEPT
                ![synthJ].centroid = Pt(r2.centroid.x + push[1],
                                        r2.centroid.y + push[2]),
                ![synthI].centroid = Pt(r1.centroid.x - push[1],
                                        r1.centroid.y - push[2])]
    /\ IF synthJ + 1 <= Len(roomData)
       THEN synthJ' = synthJ + 1 /\ UNCHANGED synthI
       ELSE synthI' = synthI + 1 /\ synthJ' = synthI + 2
    /\ UNCHANGED <<synthRooms, synthUnified, synthPc>>
    /\ UNCHANGED <<matchVars, handlerVars, agentVars, geoVars, layoutVars,
                   detectVars>>

\* both loops are over
SynthResolved ==
    /\ synthPc = "resolve"
    /\ synthJ > Len(roomData)
    /\ synthPc' = "done"
    /\ UNCHANGED <<synthRooms, roomData, synthI, synthJ, synthUnified>>
    /\ UNCHANGED <<matchVars, handlerVars, agentVars, geoVars, layoutVars,
                   detectVars>>

\* lines 517-626: the rooms with labelPosition are pushed, then the rooms
\* without in the fallback flow; the function returns unified
SynthReturn ==
    /\ synthPc = "done"
    /\ synthUnified' = generateSyntheticContours(synthRooms)
    /\ synthPc' = "returned"
    /\ UNCHANGED <<synthRooms, roomData, synthI, synthJ>>
    /\ UNCHANGED <<matchVars, handlerVars, agentVars, geoVars, layoutVars,
                   detectVars>>

SynthNext == SynthStart \/ ResolvePair \/ SynthResolved \/ SynthReturn

SpecSynth == SynthInit /\ [][SynthNext]_vars

\* C12: after the overlap-resolution pass every two rooms with a label
\* position have centroids at least (width1_px + width2_px) / 2 apart.
C12_ResolvedPositionsSeparated ==
    synthPc = "done" =>
      \A i, j \in 1..Len(roomData) :
        i < j =>
          LET dx == roomData[j].centroid.x - roomData[i].centroid.x
              dy == roomData[j].centroid.y - roomData[i].centroid.y
              minDist == (roomData[i].width + roomData[j].width) \div 2
          IN  dx * dx + dy * dy >= minDist * minDist

\* C13: given an empty room list, calculateConnectedLayout never returns a
\* layout (a FloorplanData with no rooms), whether or not an adjacency list
\* is supplied.
C13_EmptyRoomListIsSignalled ==
    Len(aiResponse.rooms) = 0 => layoutPc \notin {"laid", "validated"}

\* a {room1, room2, edge} record with edge one of the four directions
isAdjacencyRelation(v) ==
    /\ {"room1", "room2", "edge"} \subseteq DOMAIN v
    /\ v.edge \in {"north", "south", "east", "west"}

\* C14: the list determineAdjacencyWithAgent resolves with, and the
\* adjacency list of the response, hold nothing but {room1, room2, edge}
\* records with edge in north, south, east, west.
C14_MalformedAnswerIsRejected ==
    /\ agentPc = "resolved" =>
         \A k \in 1..Len(agentResult) : isAdjacencyRelation(agentResult[k])
    /\ response # <<>> =>
         \A k \in 1..Len(response[1].adjacency) :
           isAdjacencyRelation(response[1].adjacency[k])

(***************************************************************************)
(* validateLayout on arbitrary layouts: the rooms are 2 x 2 m boxes, the   *)
(* first at the origin, the others at offsets that make every class of     *)
(* pair occur.                                                             *)
(***************************************************************************)
MaxValidateRooms == 3

\* offsets of the centre from the origin, in 0.05 m: for two 40-unit boxes
\* an offset of 40 + g leaves a gap of g and 40 - o an overlap of o
ValidateOffsets(i) ==
    IF i = 2 THEN {-42, 0, 38, 39, 40, 42, 43, 44, 47, 49, 50, 52}
    ELSE IF i = 3 THEN {0, 44, 86}
    ELSE {-100 * i}

ValidateRoom(i, x, z) ==
    Room(i, "Room", <<x, 0, z>>, <<40, CeilingHeight, 40>>)

ValidateInit ==
    /\ \E n \in 1..MaxValidateRooms :
         \E x \in [2..n -> UNION {ValidateOffsets(i) : i \in 2..n}],
            z \in [2..n -> UNION {ValidateOffsets(i) : i \in 2..n}] :
           /\ \A i \in 2..n : x[i] \in ValidateOffsets(i)
                              /\ z[i] \in ValidateOffsets(i)
           /\ layoutRooms =
                [i \in 1..n |-> IF i = 1 THEN ValidateRoom(1, 0, 0)
                                ELSE ValidateRoom(i, x[i], z[i])]
    /\ aiResponse = <<>>
    /\ layoutPc = "laid"
    /\ strategy = "none"
    /\ positioned = <<>>
    /\ queue = <<>>
    /\ bfsTrace = <<>>
    /\ validation = <<>>
    /\ MatchIdle /\ HandlerIdle /\ AgentIdle /\ GeoIdle /\ SynthIdle /\ DetectIdle

ValidateNext == ValidateLayout

SpecValidate == ValidateInit /\ [][ValidateNext]_vars

\* overlap of two rooms along axis a (1 = x, 3 = z), negative when apart
axisOverlap(r1, r2, a) ==
    Min(r1.position[a] + r1.dimensions[a] \div 2,
        r2.position[a] + r2.dimensions[a] \div 2)
    - Max(r1.position[a] - r1.dimensions[a] \div 2,
          r2.position[a] - r2.dimensions[a] \div 2)

\* the pair classes of the contract
boxesOverlap(r1, r2) == axisOverlap(r1, r2, 1) > 0 /\ axisOverlap(r1, r2, 3) > 0

isOverlapPair(r1, r2) ==
    /\ boxesOverlap(r1, r2)
    /\ Min(axisOverlap(r1, r2, 1), axisOverlap(r1, r2, 3)) > OverlapTolerance

\* squared minimum distance of two boxes that do not overlap
gapSquared(r1, r2) ==
    LET gx == Max(0, -axisOverlap(r1, r2, 1))
        gz == Max(0, -axisOverlap(r1, r2, 3))
    IN  gx * gx + gz * gz

isGapPair(r1, r2) ==
    /\ ~boxesOverlap(r1, r2)
    /\ gapSquared(r1, r2) > GapMin * GapMin
    /\ gapSquared(r1, r2) < GapMax * GapMax

\* how often the pair of ids is listed, in either order
timesListed(list, a, b) ==
    Cardinality({k \in 1..Len(list) :
                   \/ list[k].room1 = a /\ list[k].room2 = b
                   \/ list[k].room1 = b /\ list[k].room2 = a})

\* C15: validateLayout lists every unordered pair of rooms at most once, as
\* an overlap exactly when the boxes overlap on both axes by more than
\* 0.05 m on the smaller axis, as a gap exactly when they do not overlap and
\* are more than 0.15 m and less than 0.5 m apart, never as both, and isValid
\* is true iff the overlap list is empty.
C15_ValidateLayoutClassifies ==
    (layoutPc = "validated" /\ UniqueIds(layoutRooms)) =>
      LET v == validation[1]
          n == Len(layoutRooms)
      IN  /\ \A i \in 1..n : \A j \in (i + 1)..n :
                LET r1 == layoutRooms[i]
                    r2 == layoutRooms[j]
                IN  /\ timesListed(v.overlaps, r1.id, r2.id)
                         = IF isOverlapPair(r1, r2) THEN 1 ELSE 0
                    /\ timesListed(v.gaps, r1.id, r2.id)
                         = IF isGapPair(r1, r2) THEN 1 ELSE 0
                    /\ timesListed(v.overlaps, r1.id, r2.id)
                         + timesListed(v.gaps, r1.id, r2.id) <= 1
          /\ \A k \in 1..Len(v.overlaps) : v.overlaps[k].room1 # v.overlaps[k].room2
          /\ \A k \in 1..Len(v.gaps) : v.gaps[k].room1 # v.gaps[k].room2
          /\ v.isValid <=> Len(v.overlaps) = 0

\* three rooms in a row validated: the first two overlap by 0.1 m, the
\* last two are 0.4 m apart, the outer two 2.3 m
C15_Witness ==
    /\ layoutPc = "validated"
    /\ Len(layoutRooms) = 3
    /\ layoutRooms[2].position = <<38, 0, 0>>
    /\ layoutRooms[3].position = <<86, 0, 0>>
    /\ Len(validation[1].overlaps) = 1
    /\ Len(validation[1].gaps) = 1
    /\ ~validation[1].isValid

\* C16: for unique room ids the layout of the grid strategy holds every
\* input room exactly once: as many rooms as the input, each id once.
C16_GridPlacesEachRoomOnce ==
    (strategy = "grid" /\ layoutPc \in {"laid", "validated"}
       /\ UniqueIds(aiResponse.rooms)) =>
      /\ Len(layoutRooms) = Len(aiResponse.rooms)
      /\ \A i \in 1..Len(aiResponse.rooms) :
           Cardinality({k \in 1..Len(layoutRooms) :
                          layoutRooms[k].id = aiResponse.rooms[i].id}) = 1

\* a grid layout of three rooms: the entry room matches the kitchen and the
\* reception keywords, another room is a hallway, the third matches nothing
C16_Witness ==
    /\ strategy = "grid"
    /\ layoutPc = "laid"
    /\ Len(aiResponse.rooms) = 3
    /\ aiResponse.entryRoomId = 2
    /\ aiResponse.rooms[2].name = "Kitchen/Living Room"
    /\ aiResponse.rooms[1].name = "Hallway"
    /\ aiResponse.rooms[3].name = "Store"
    /\ Len(layoutRooms) = 3

\* two rooms next to each other along axis a (their extents overlap on the
\* other axis b) are at least WALL_THICKNESS apart along a
wallBetween(r1, r2, a, b) ==
    axisOverlap(r1, r2, b) > 0 => -axisOverlap(r1, r2, a) >= WALL_THICKNESS

\* C17: in the layout of each strategy any two rooms next to each other
\* along x are at least 0.1 m apart along x, and likewise along z.
C17_WallBetweenNeighbours ==
    layoutPc \in {"laid", "validated"} =>
      \A i, j \in 1..Len(layoutRooms) :
        i < j => /\ wallBetween(layoutRooms[i], layoutRooms[j], 1, 3)
                 /\ wallBetween(layoutRooms[i], layoutRooms[j], 3, 1)

\* the gap between two boxes along the x and along the y axis
boxGapX(b1, b2) == Max(0, Max(b1.x, b2.x) - Min(b1.x + b1.width, b2.x + b2.width))
boxGapY(b1, b2) == Max(0, Max(b1.y, b2.y) - Min(b1.y + b1.height, b2.y + b2.height))

\* C18: for rooms with unique ids, list_nearby_rooms never returns the room
\* itself nor a room whose box is separated from the given room's by a gap
\* larger than max_distance_px, and the result is sorted ascending by
\* distance.
C18_NearbyRoomsWithinMax ==
    (geoPc = "listed" /\ UniqueIds(geoRooms)) =>
      LET q == nearby[1]
          me == findIndex(geoRooms, q.room_id, 1)
      IN  /\ \A k \in 1..Len(q.result) : q.result[k].id # q.room_id
          /\ \A k \in 1..Len(q.result) :
               LET o == findIndex(geoRooms, q.result[k].id, 1)
               IN  /\ me # 0 /\ o # 0
                   /\ boxGapX(geoRooms[me].bbox, geoRooms[o].bbox)
                        <= q.max_distance_px
                   /\ boxGapY(geoRooms[me].bbox, geoRooms[o].bbox)
                        <= q.max_distance_px
          /\ \A k \in 1..(Len(q.result) - 1) :
               q.result[k].distance <= q.result[k + 1].distance

\* C19: under the thresholds of real geometry (15 px, 50%) a pair of rooms
\* whose east edge distance is 5 px and whose overlap on the y axis is 80%
\* is reported with edge = east, whatever the sizes of the rooms.
C19_EastPairReportedEast ==
    (geoPc = "done" /\ UniqueIds(geoRooms) /\ hasClaudeSpatialData(geoRooms)) =>
      \A i, j \in 1..Len(geoRooms) :
        (/\ i < j
         /\ checkEdgeDistance(geoRooms, geoRooms[i].id, geoRooms[j].id, "east") = 5
         /\ LET p == getOverlapPercentage(geoRooms, geoRooms[i].id,
                                          geoRooms[j].id, "y")
            IN  p.min > 0 /\ p.overlap * 100 = 80 * p.min)
        => \E a \in 1..Len(geoAdjacency) :
             /\ geoAdjacency[a].room1 = geoRooms[i].id
             /\ geoAdjacency[a].room2 = geoRooms[j].id
             /\ geoAdjacency[a].edge = "east"

\* C20: positive z is north, the top of the image.  In a layout of the
\* pixel-position strategy a room whose centroid is higher in the image
\* (smaller pixel y) has the larger z; in the breadth-first traversal a room
\* placed north of its base has the larger z and one placed south the
\* smaller.
C20_NorthIsPositiveZ ==
    /\ (strategy = "image" /\ layoutPc \in {"laid", "validated"}) =>
         \A i, j \in 1..Len(aiResponse.rooms) :
           (/\ aiResponse.rooms[i].centroid # <<>>
            /\ aiResponse.rooms[j].centroid # <<>>
            /\ aiResponse.rooms[i].centroid[1].y
                 < aiResponse.rooms[j].centroid[1].y)
           => layoutRooms[i].position[3] > layoutRooms[j].position[3]
    /\ \A t \in 1..Len(bfsTrace) :
         LET rel == aiResponse.adjacency[bfsTrace[t].relation]
             R == positioned[t + 1]
             B == CHOOSE b \in {positioned[k] : k \in 1..t} :
                    b.id = bfsTrace[t].base
             forward == rel.room1 = B.id /\ rel.room2 = R.id
             north == IF forward THEN rel.edge = "north"
                      ELSE rel.edge = "south"
             south == IF forward THEN rel.edge = "south"
                      ELSE rel.edge = "north"
         IN  /\ north => R.position[3] > B.position[3]
             /\ south => R.position[3] < B.position[3]

(***************************************************************************)
(* detectRoomBoundaries (visionDetection.ts, the revision index.ts         *)
(* imports).  The decoded image is given by its white regions: disjoint    *)
(* rectangles that do not touch, so that each is one connected component,  *)
(* found by the row-major scan at its top-left pixel.                      *)
(***************************************************************************)
MaxRegions == 5
DetectWidth == 1000
DetectHeight == 1000
MinSidePx == 50

\* the white regions an image is drawn from
DetectRegion(i) ==
    CASE i = 1 -> Box(0, 0, 100, 100)
      [] i = 2 -> Box(200, 0, 300, 300)
      [] i = 3 -> Box(0, 400, 400, 60)
      [] i = 4 -> Box(600, 0, 60, 60)
      [] i = 5 -> Box(0, 600, 200, 200)
      [] OTHER -> Box(700, 700, 200, 200)

RECURSIVE scanOrder(_, _)
\* the regions in the order the scan `for y ... for x ...` meets them
scanOrder(regions, width) ==
    IF regions = {} THEN <<>>
    ELSE LET first == CHOOSE r \in regions :
                        \A q \in regions : r.y * width + r.x <= q.y * width + q.x
         IN  <<first>> \o scanOrder(regions \ {first}, width)

\* the components of at least minArea = (width * height) / 100 pixels
findConnectedComponents(image) ==
    SelectSeq(scanOrder(image.regions, image.width),
              LAMBDA r : 100 * (r.width * r.height) >= image.width * image.height)

\* bbox, rounded centroid and pixel count of a rectangular component
calculateBoundingBox(component) ==
    [bbox |-> component,
     centroid |-> Pt(component.x + component.width \div 2,
                     component.y + component.height \div 2),
     area |-> component.width * component.height]

\* the aspect-ratio and size filters of Step 6
keepComponent(c) ==
    /\ ~(5 * c.width < c.height \/ c.width > 5 * c.height)
    /\ ~(c.width < MinSidePx \/ c.height < MinSidePx)

\* [threw, contours]: the value detectRoomBoundaries resolves with
detectRoomBoundaries(input) ==
    IF ~input.webApis THEN [threw |-> FALSE, contours |-> <<>>]
    ELSE IF input.decodeThrows THEN [threw |-> FALSE, contours |-> <<>>]
    ELSE LET kept == SelectSeq(findConnectedComponents(input), keepComponent)
         IN  [threw |-> FALSE,
              contours |-> [k \in 1..Len(kept) |-> calculateBoundingBox(kept[k])]]

DetectInit ==
    /\ \E regions \in SUBSET {DetectRegion(i) : i \in 1..MaxRegions},
          webApis \in BOOLEAN, decodeThrows \in BOOLEAN :
         detectInput = <<[webApis |-> webApis, decodeThrows |-> decodeThrows,
                          width |-> DetectWidth, height |-> DetectHeight,
                          regions |-> regions]>>
    /\ detectResult = <<>>
    /\ detectPc = "start"
    /\ MatchIdle /\ HandlerIdle /\ AgentIdle /\ GeoIdle /\ LayoutIdle
    /\ SynthIdle

DetectRoomBoundaries ==
    /\ detectPc = "start"
    /\ detectResult' = <<detectRoomBoundaries(detectInput[1])>>
    /\ detectPc' = "done"
    /\ UNCHANGED <<detectInput, matchVars, handlerVars, agentVars, geoVars,
                   layoutVars, synthVars>>

DetectNext == DetectRoomBoundaries

SpecDetect == DetectInit /\ [][DetectNext]_vars

\* C21: detectRoomBoundaries never throws, returns the empty list when the
\* Web APIs are missing or decoding fails, and returns its contours ordered
\* by area, largest first.
C21_ContoursLargestFirst ==
    detectPc = "done" =>
      LET r == detectResult[1]
      IN  /\ ~r.threw
          /\ (~detectInput[1].webApis \/ detectInput[1].decodeThrows)
               => r.contours = <<>>
          /\ \A k \in 1..(Len(r.contours) - 1) :
               r.contours[k].area >= r.contours[k + 1].area

\* the directions in which the pair is within the distance threshold
nearDirections(rooms, room1, room2) ==
    {d \in {"north", "south", "east", "west"} :
       Abs(checkEdgeDistance(rooms, room1.id, room2.id, d))
         <= DISTANCE_THRESHOLD(rooms)}

\* C22: a relation is reported in a direction only if the edge distance is
\* within the distance threshold and the overlap on the perpendicular axis
\* reaches the overlap threshold or the distance is below 20% of the distance
\* threshold; with the thresholds 15 px and 50%, a pair whose only near
\* direction has a gap of 10 px and no overlap is not reported.
C22_AcceptanceRule ==
    (geoPc = "done" /\ UniqueIds(geoRooms)) =>
      /\ \A a \in 1..Len(geoAdjacency) :
           LET rel == geoAdjacency[a]
               d == checkEdgeDistance(geoRooms, rel.room1, rel.room2, rel.edge)
               axis == IF rel.edge \in {"north", "south"} THEN "x" ELSE "y"
               overlap == getOverlapPercentage(geoRooms, rel.room1, rel.room2,
                                               axis)
           IN  /\ Abs(d) <= DISTANCE_THRESHOLD(geoRooms)
               /\ \/ PercentAtLeast(overlap, OVERLAP_THRESHOLD(geoRooms))
                  \/ 5 * Abs(d) < DISTANCE_THRESHOLD(geoRooms)
      /\ hasClaudeSpatialData(geoRooms) =>
           \A i, j \in 1..Len(geoRooms) :
             (/\ i < j
              /\ \E e \in {"north", "south", "east", "west"} :
                   /\ nearDirections(geoRooms, geoRooms[i], geoRooms[j]) = {e}
                   /\ checkEdgeDistance(geoRooms, geoRooms[i].id,
                                        geoRooms[j].id, e) = 10
                   /\ getOverlapPercentage(
                        geoRooms, geoRooms[i].id, geoRooms[j].id,
                        IF e \in {"north", "south"} THEN "x" ELSE "y").overlap = 0)
             => \A a \in 1..Len(geoAdjacency) :
                  ~(/\ geoAdjacency[a].room1 = geoRooms[i].id
                    /\ geoAdjacency[a].room2 = geoRooms[j].id)

\* the box expanded by 20 px on every side contains the point
expandedContains(bbox, point) ==
    /\ point.x \in (bbox.x - 20)..(bbox.x + bbox.width + 20)
    /\ point.y \in (bbox.y - 20)..(bbox.y + bbox.height + 20)

\* C23: a room the loop has processed is emitted iff it has a labelPosition
\* and, among the contours not used by earlier rooms, some contour's box
\* expanded by 20 px contains the label (exact match with the containing
\* contour of the nearest centroid, at any distance) or none contains it and
\* the nearest centroid is less than 200 px away (near match with it).
C23_EmittedIffMatched ==
    \A r \in 1..roomIdx :
      LET room == claudeRooms[r]
          entries == {a \in 1..Len(matchLog) : matchLog[a].room = room.id}
          usedBefore == {matchLog[a].bestIndex :
                           a \in {b \in 1..Len(matchLog) : matchLog[b].room < room.id}}
          free == (1..Len(filteredContours)) \ usedBefore
          label == room.labelPosition[1]
          d(c) == distance(label, filteredContours[c].centroid)
          containing == {c \in free :
                           expandedContains(filteredContours[c].bbox, label)}
          near == {c \in free : d(c) < 200 * 200}
          matched == /\ room.labelPosition # <<>>
                     /\ (containing # {} \/ near # {})
      IN  /\ Cardinality(entries) = IF matched THEN 1 ELSE 0
          /\ \A a \in entries :
               LET e == matchLog[a]
                   pool == IF containing # {} THEN containing ELSE free
               IN  /\ e.bestIndex \in pool
                   /\ \A c \in pool : d(e.bestIndex) <= d(c)
                   /\ e.matchType = IF containing # {} THEN "exact" ELSE "near"
                   /\ unified[a].id = room.id
                   /\ unified[a].bbox = filteredContours[e.bestIndex].bbox

\* the loop is over: room 1 was matched to the nearest centroid 164 px away,
\* room 2 has no label and is absent, room 3 is an exact match
C23_Witness ==
    /\ matchPc = "done"
    /\ Len(claudeRooms) = 3
    /\ claudeRooms[1].labelPosition = <<Pt(470, 110)>>
    /\ claudeRooms[2].labelPosition = <<>>
    /\ claudeRooms[3].labelPosition = <<Pt(100, 75)>>
    /\ Len(matchLog) = 2
    /\ matchLog[1].matchType = "near"
    /\ matchLog[2].matchType = "exact"

\* two pixel boxes share an area
boxesIntersect(b1, b2) ==
    /\ Min(b1.x + b1.width, b2.x + b2.width) > Max(b1.x, b2.x)
    /\ Min(b1.y + b1.height, b2.y + b2.height) > Max(b1.y, b2.y)

\* C24: among the rooms without labelPosition, in the order of the flow, a
\* room that starts at or left of an earlier room (the flow has wrapped in
\* between) does not overlap that earlier room.
C24_WrapStartsNewBand ==
    synthPc = "returned" =>
      \A a, b \in 1..Len(synthUnified) :
        (/\ a < b
         /\ synthUnified[a].labelPosition = <<>>
         /\ synthUnified[b].labelPosition = <<>>
         /\ synthUnified[b].bbox.x <= synthUnified[a].bbox.x)
        => ~boxesIntersect(synthUnified[a].bbox, synthUnified[b].bbox)

\* C25: when the handler has run the geometric detection on its rooms (the
\* timeout won the race), the thresholds it used are 15 px and 50% if the
\* rooms carry detected contours and 30 px and 60% if they are synthetic.
C25_ThresholdsFollowGeometry ==
    (handlerPc = "done" /\ raceWinner = "timeout" /\ Len(unifiedRooms) > 0) =>
      /\ DISTANCE_THRESHOLD(unifiedRooms)
           = IF usedSyntheticContours THEN 30 ELSE 15
      /\ OVERLAP_THRESHOLD(unifiedRooms)
           = IF usedSyntheticContours THEN 60 ELSE 50

\* C26: within a turn the request is sent again only after a 429, at most
\* 3 times, after waits of 2 s, 4 s and 8 s; every other response leaves the
\* retry loop (the loop ends or the next turn starts with the count at 0);
\* a 429 on the fourth request ends the agent with the empty list.
C26_BoundedBackoff ==
    /\ [](retryAttempts <= 3)
    /\ [][/\ retryAttempts' > retryAttempts =>
               /\ agentPc = "fetch" /\ agentPc' = "backoff"
               /\ retryAttempts' = retryAttempts + 1
               /\ backoffMs' = CASE retryAttempts' = 1 -> 2000
                                 [] retryAttempts' = 2 -> 4000
                                 [] retryAttempts' = 3 -> 8000
          /\ (agentPc = "backoff" /\ agentPc' # "backoff") =>
               agentPc' = "fetch" /\ retryAttempts' = retryAttempts
          /\ (agentPc = "fetch" /\ agentPc' \notin {"fetch", "backoff"}) =>
               \/ agentPc' = "resolved"
               \/ agentPc' = "delay"
          /\ (agentPc = "delay" /\ agentPc' = "fetch") => retryAttempts' = 0
          /\ (agentOutcome' = "rate_limited" /\ agentOutcome # "rate_limited") =>
               /\ retryAttempts = 3
               /\ agentPc' = "resolved"
               /\ agentResult' = <<>>]_vars

\* the third wait of a turn is in progress
C26_Witness ==
    /\ agentPc = "backoff"
    /\ retryAttempts = 3
    /\ backoffMs = 8000
    /\ iterations = 2

\* C27: at every oracle request the transcript is the prompt followed by the
\* most recent complete exchanges, at most 3 of them (7 messages): the prompt
\* is first, roles alternate user/assistant, and each tool_result follows the
\* assistant message with the tool_use of the same turn.
C27_TranscriptWindow ==
    agentPc = "fetch" =>
        LET n == Len(messages)
            kept == (n - 1) \div 2
        IN  /\ n >= 1 /\ n <= 7
            /\ n = 2 * kept + 1
            /\ kept = IF iterations - 1 < 3 THEN iterations - 1 ELSE 3
            /\ messages[1] = [role |-> "user", content |-> "prompt",
                              turn |-> 0]
            /\ \A k \in 1..n :
                 messages[k].role = IF k % 2 = 1 THEN "user" ELSE "assistant"
            /\ \A k \in 2..n :
                 messages[k].content = "tool_result" =>
                     /\ messages[k - 1].role = "assistant"
                     /\ messages[k - 1].content = "tool_use"
                     /\ messages[k - 1].turn = messages[k].turn
            /\ \A j \in 1..kept :
                 /\ messages[2 * j].content = "tool_use"
                 /\ messages[2 * j + 1].content = "tool_result"
                 /\ messages[2 * j].turn = iterations - 1 - kept + j

\* the sixth request: the first two exchanges have been trimmed away
C27_Witness ==
    /\ agentPc = "fetch"
    /\ iterations = 6
    /\ Len(messages) = 7
    /\ messages[2].turn = 3
    /\ messages[7].turn = 5

\* C28: determineAdjacencyWithAgent, once started, always resolves, after at
\* most 15 turns whatever the responses are; when the turns run out because
\* every response asked for tools, it resolves with the empty list.
C28_AgentTerminates ==
    /\ [](iterations <= 15)
    /\ (agentPc = "fetch") ~> (agentPc = "resolved")
    /\ [][(agentOutcome' = "max_iterations" /\ agentOutcome # "max_iterations")
          => /\ agentPc = "fetch"
             /\ iterations = 15
             /\ agentPc' = "resolved"
             /\ agentResult' = <<>>]_vars

\* the agent has resolved after fifteen turns of tool requests
C28_Witness ==
    /\ agentPc = "resolved"
    /\ agentOutcome = "max_iterations"
    /\ agentResult = <<>>

\* the number of times the breadth-first traversal has pushed id on its queue
timesEnqueued(id) ==
    (IF aiResponse.rooms[findIndex(aiResponse.rooms, startRoomId(aiResponse),
                                   1)].id = id THEN 1 ELSE 0)
      + Cardinality({t \in 1..Len(bfsTrace) : bfsTrace[t].id = id})

\* C29: for a non-empty room list with unique ids and a non-empty adjacency
\* list, whatever the relations are, the breadth-first strategy terminates,
\* enqueues each room at most once, never changes a position it has set (the
\* first relation of the base room's list that names the room fixes it), and
\* returns every input room exactly once.
C29_BfsVisitsEachRoomOnce ==
    /\ [](strategy = "bfs" =>
            /\ \A i \in 1..Len(aiResponse.rooms) :
                 timesEnqueued(aiResponse.rooms[i].id) <= 1
            /\ \A k \in 1..Len(queue) :
                 /\ positionedHas(positioned, queue[k])
                 /\ \A l \in 1..Len(queue) : queue[l] = queue[k] => l = k
            /\ \A t \in 1..Len(bfsTrace) :
                 LET list == adjacencyMapGet(aiResponse.adjacency,
                                             bfsTrace[t].base,
                                             Len(aiResponse.adjacency))
                     named == {k \in 1..Len(list) :
                                 list[k].roomId = bfsTrace[t].id}
                 IN  \E k \in named :
                       /\ \A l \in named : k <= l
                       /\ list[k].relation = bfsTrace[t].relation
                       /\ list[k].reversed = bfsTrace[t].reversed)
    /\ []((strategy = "bfs" /\ layoutPc \in {"laid", "validated"}) =>
            /\ Len(layoutRooms) = Len(aiResponse.rooms)
            /\ \A i \in 1..Len(aiResponse.rooms) :
                 Cardinality({k \in 1..Len(layoutRooms) :
                                layoutRooms[k].id = aiResponse.rooms[i].id})
                   = 1)
    /\ (layoutPc = "bfs") ~> (layoutPc = "laid")
    /\ [][(strategy = "bfs" /\ strategy' = "bfs") =>
            /\ Len(positioned') >= Len(positioned)
            /\ \A k \in 1..Len(positioned) : positioned'[k] = positioned[k]]_vars

\* the traversal has finished on three rooms related in a cycle
C29_Witness ==
    /\ strategy = "bfs"
    /\ layoutPc = "laid"
    /\ Len(aiResponse.adjacency) = 3
    /\ aiResponse.adjacency[3] = Relation(3, 1, "north")
    /\ Len(aiResponse.rooms) = 3
    /\ Len(bfsTrace) = 2
    /\ bfsTrace[2].id = 3
    /\ bfsTrace[2].base = 1

\* the number of entries of rooms with the given id
timesIn(rooms, id) == Cardinality({k \in 1..Len(rooms) : rooms[k].id = id})

\* C30: after STAGE 3 each semantic room is in the pipeline's rooms at most
\* once; with synthetic geometry every semantic room is there; with real
\* matches kept the rooms are exactly the matched ones, so a room without
\* labelPosition is absent; the response carries these rooms and no others.
C30_ResponseRooms ==
    handlerPc \in {"stage4", "await", "done"} =>
      LET n == Len(claudeRooms)
          m == matchRoomsToContours(claudeRooms, contours)
      IN  /\ \A k \in 1..Len(unifiedRooms) :
               \E i \in 1..n : claudeRooms[i].id = unifiedRooms[k].id
          /\ \A i \in 1..n : timesIn(unifiedRooms, claudeRooms[i].id) <= 1
          /\ usedSyntheticContours =>
               \A i \in 1..n : timesIn(unifiedRooms, claudeRooms[i].id) = 1
          /\ ~usedSyntheticContours =>
               /\ 2 * Len(unifiedRooms) >= n
               /\ \A i \in 1..n :
                    /\ timesIn(unifiedRooms, claudeRooms[i].id)
                         = timesIn(m, claudeRooms[i].id)
                    /\ claudeRooms[i].labelPosition = <<>> =>
                         timesIn(unifiedRooms, claudeRooms[i].id) = 0
          /\ response # <<>> =>
               /\ Len(response[1].rooms) = Len(unifiedRooms)
               /\ \A k \in 1..Len(unifiedRooms) :
                    response[1].rooms[k].id = unifiedRooms[k].id

\* real matches kept for two of three rooms: the unlabelled room is not in
\* the response
C30_Witness ==
    /\ handlerPc = "done"
    /\ ~usedSyntheticContours
    /\ Len(claudeRooms) = 3
    /\ Len(response[1].rooms) = 2
    /\ \E i \in 1..3 :
         /\ claudeRooms[i].labelPosition = <<>>
         /\ timesIn(response[1].rooms, claudeRooms[i].id) = 0

====
